---- MODULE Spec2Model ----
(***************************************************************************)
(* A model of the SAM-UN dashboard backend (app.py, supabase_client.py,    *)
(* config.py): the layer store with its remote bucket and local-file       *)
(* fallback, the file conversion endpoint, and the session-gated pages.    *)
(*                                                                         *)
(* A stored layer is the JSON text of a GeoJSON document; it is modelled   *)
(* by the document it parses to, a record [type, features], and a feature  *)
(* list by a sequence of feature identifiers.                              *)
(***************************************************************************)
EXTENDS Integers, Sequences, FiniteSets, TLC

\* ---------------------------------------------------------------- bounds

\* Longest feature list a request carries.
MaxFeatures == 1

\* ------------------------------------------------------------ layer data

Layers == {"roads", "camps"}

FeatureIds == {"a", "b"}

RECURSIVE SeqsUpTo(_, _)
SeqsUpTo(S, n) ==
    IF n = 0 THEN {<<>>}
    ELSE LET shorter == SeqsUpTo(S, n - 1)
         IN  shorter \cup {Append(s, x) : s \in shorter, x \in S}

\* The feature lists of the requests of the sequential model: lists of one
\* kind of feature, told apart by their length.
FeatureLists == SeqsUpTo({"a"}, MaxFeatures)

\* geojson_data = {"type": "FeatureCollection", "features": data["features"]}
Doc(F) == [type |-> "FeatureCollection", features |-> F]

\* No object / no file of that name.
Absent == [type |-> "absent", features |-> <<>>]

\* A file of n characters whose text is not one JSON document (n = 0: a
\* file just truncated).
Corrupt(n) == [type |-> "corrupt", features |-> <<>>, size |-> n]

\* The length of a file's text, counted in features: json.dumps of a longer
\* feature list is a longer text.
TextLen(d) ==
    IF d = Absent THEN 0
    ELSE IF d.type = "corrupt" THEN d.size
    ELSE Len(d.features) + 1

\* Outcome of a call to the remote store: it answers, the bucket cannot be
\* found (ensure_layers_bucket is False), or the call raises.
RemoteOutcomes == {"ok", "nobucket", "error"}
ReadOutcomes == {"ok", "error"}
DiskOutcomes == {"ok", "fail"}

VARIABLES
    bucket,      \* remote bucket "Geojson": layer name -> document or Absent
    local,       \* local directory geojson_dir: layer name -> document or Absent
    uploadDir,   \* files in upload_dir, each <<base name, extension>>
    last,        \* history: what the last update/convert/delete request did to each layer
    live,        \* history: layer created by a successful write and not deleted since
    resp         \* the last response of a layer endpoint, with the request's inputs

layerVars == <<bucket, local, uploadDir, last, live, resp>>

\* Two update requests for one layer, running as two threads of the server.
VARIABLES
    pc,          \* where each request is in update_layer
    pay,         \* the features each request carries
    old,         \* old_content of each request, the document it writes
    ans          \* each request's response: status and storage

raceVars == <<pc, pay, old, ans>>

\* One browser and its session cookie.
VARIABLES
    cookie,      \* the signed session cookie: the session it carries and its age
    idle,        \* minutes since the browser's last request
    logged,      \* history: "never", "in" (logged in), "out" (logged out), "expired"
    page         \* the last response of a page route, with the request's inputs

authVars == <<cookie, idle, logged, page>>

VARIABLES
    sitreps,     \* the hosted table "sitreps": a set of incident rows
    nextId,      \* the identifier the table gives to its next row
    localdb,     \* the SQLite file at DB_PATH: NoDb, or rows per title
    sresp        \* the request last answered by the incident API, and its answer

sitVars == <<sitreps, nextId, localdb, sresp>>

VARIABLES
    fetched,     \* the rows get_sitreps returned to an aggregation request
    agg          \* the aggregation request last answered, and its answer

calcVars == <<fetched, agg>>

VARIABLES
    ipc,         \* where the insights request is: idle, first, fallback, done
    idata,       \* len(data) of the insights request
    calls,       \* chat_completion calls the insights request has made
    attempts,    \* what those calls returned, in order
    insights     \* what generate_sitrep_insights returned

llmVars == <<ipc, idata, calls, attempts, insights>>

VARIABLES
    stored,      \* what get_sitreps() returns to the chatbot: the table's rows
    llm,         \* whether the chatbot has a language model client
    reply        \* the chatbot query last answered, and its answer

chatVars == <<stored, llm, reply>>

VARIABLES
    qargs,       \* the query arguments of a filtered request
    built        \* the store filter each filtered endpoint built from them

filterVars == <<qargs, built>>

VARIABLES
    geo          \* the GeoJSON view last answered: its features

geoVars == <<geo>>

VARIABLES
    vend         \* a request for /vendor/<subpath> and its answer

vendorVars == <<vend>>

VARIABLES
    spc,         \* where the streamed query is: idle, streaming, done
    events,      \* the events emitted for it, in order
    full         \* full_response of chat_completion_stream

streamVars == <<spc, events, full>>

VARIABLES
    conversations, \* the table chatbot_conversations: the saved exchanges, oldest first
    asks,        \* the chatbot queries made so far
    conv         \* the query last answered: its session and the messages sent

convVars == <<conversations, asks, conv>>

moreVars == <<filterVars, geoVars, vendorVars, streamVars, convVars>>

apiVars == <<sitVars, calcVars, llmVars, chatVars, moreVars>>

\* What the building of a filter leaves alone.
notFilter ==
    <<layerVars, raceVars, authVars, sitVars, calcVars, llmVars, chatVars, geoVars,
      vendorVars, streamVars, convVars>>

\* What a GeoJSON view leaves alone.
notGeo ==
    <<layerVars, raceVars, authVars, sitVars, calcVars, llmVars, chatVars, filterVars,
      vendorVars, streamVars, convVars>>

\* What a vendor request leaves alone.
notVendor ==
    <<layerVars, raceVars, authVars, sitVars, calcVars, llmVars, chatVars, filterVars,
      geoVars, streamVars, convVars>>

\* What the conversation of a chatbot query leaves alone.
notConv ==
    <<layerVars, raceVars, authVars, sitVars, calcVars, llmVars, chatVars, filterVars,
      geoVars, vendorVars, streamVars>>

\* What the events of a streamed query leave alone.
notStream ==
    <<layerVars, raceVars, authVars, sitVars, calcVars, llmVars, chatVars, filterVars,
      geoVars, vendorVars, convVars>>

\* What a chatbot query leaves alone.
notChat == <<layerVars, raceVars, authVars, sitVars, calcVars, llmVars, moreVars>>

\* What an insights request leaves alone.
notLlm == <<layerVars, raceVars, authVars, sitVars, calcVars, chatVars, moreVars>>

\* What the incident API leaves alone.
notSit == <<layerVars, raceVars, authVars, calcVars, llmVars, chatVars, moreVars>>

\* What the aggregation endpoints leave alone.
notCalc == <<layerVars, raceVars, authVars, sitVars, llmVars, chatVars, moreVars>>

vars == <<layerVars, raceVars, authVars, apiVars>>

NoResp ==
    [op |-> "none", layer |-> "", status |-> 0, storage |-> "none",
     features |-> <<>>, names |-> {}, stores |-> {}, remote |-> "ok",
     disk |-> "ok", valid |-> TRUE, file |-> "", ext |-> "", parse |-> ""]

\* The last write request on a layer: none yet, a successful update
\* ("written", with its features), a successful delete ("deleted"), or any
\* other update, convert or delete request ("other").
NoLast == [op |-> "none", features |-> <<>>]
Written(F) == [op |-> "written", features |-> F]
Deleted == [op |-> "deleted", features |-> <<>>]
Other == [op |-> "other", features |-> <<>>]

\* ------------------------------------------------- supabase_client helpers

\* update_layer_in_bucket: replace an existing object; any failure is an
\* error result. The store refuses to update an object that does not exist.
update_layer_in_bucket(bkt, L, doc, upd) ==
    IF upd = "ok" /\ bkt[L] # Absent
    THEN [success |-> TRUE, bucket |-> [bkt EXCEPT ![L] = doc]]
    ELSE [success |-> FALSE, bucket |-> bkt]

upload_layer_to_bucket_broken(bkt, L, doc, remote, upd) ==
    IF remote = "ok" /\ bkt[L] = Absent
    THEN [success |-> TRUE, bucket |-> [bkt EXCEPT ![L] = doc]]
    ELSE IF remote = "ok"
    THEN update_layer_in_bucket(bkt, L, doc, upd)
    ELSE [success |-> TRUE, bucket |-> bkt]

\* upload_layer_to_bucket: never raises; returns {"success": True, ...} or
\* {"error": ...}. An upload onto an existing object raises "already exists"
\* and is retried as an update.
upload_layer_to_bucket(bkt, L, doc, remote, upd) ==
    IF remote = "nobucket"
    THEN [success |-> FALSE, bucket |-> bkt]
    ELSE IF remote = "error"
    THEN [success |-> FALSE, bucket |-> bkt]
    ELSE IF bkt[L] # Absent
    THEN update_layer_in_bucket(bkt, L, doc, upd)
    ELSE [success |-> TRUE, bucket |-> [bkt EXCEPT ![L] = doc]]

\* download_layer_from_bucket: the parsed object, or an error result when
\* the download raises (store unreachable, object missing).
download_layer_from_bucket(bkt, L, remote) ==
    IF remote = "ok" /\ bkt[L] # Absent
    THEN [success |-> TRUE, data |-> bkt[L]]
    ELSE [success |-> FALSE, data |-> Absent]

\* list_layers_in_bucket: the names of the objects ending in .geojson.
list_layers_in_bucket(bkt, remote) ==
    IF remote = "ok"
    THEN [success |-> TRUE, layers |-> {L \in Layers : bkt[L] # Absent}]
    ELSE [success |-> FALSE, layers |-> {}]

\* delete_layer_from_bucket: success whenever remove() does not raise; the
\* store removes the object if there is one and answers without an error
\* if there is none.
delete_layer_from_bucket(bkt, L, remote) ==
    IF remote = "ok"
    THEN [success |-> TRUE, bucket |-> [bkt EXCEPT ![L] = Absent]]
    ELSE [success |-> FALSE, bucket |-> bkt]

\* ------------------------------------------------------ layer endpoints

update_layer_local_merge(loc, L, F, disk) ==
    IF disk = "fail" THEN [status |-> 500, local |-> loc]
    ELSE IF loc[L] # Absent
    THEN [status |-> 200,
          local |-> [loc EXCEPT ![L].features = loc[L].features \o F]]
    ELSE [status |-> 200, local |-> [loc EXCEPT ![L] = Doc(F)]]

\* update_layer, lines 692-718: the local-file fallback. An existing file
\* keeps its other members and gets the client's features; a file without
\* a "features" member is refused.
update_layer_local(loc, L, F, disk) ==
    IF disk = "fail" THEN [status |-> 500, local |-> loc]
    ELSE IF loc[L].type = "corrupt"
    THEN [status |-> 500, local |-> loc]
    ELSE IF loc[L] # Absent /\ loc[L].type # "FeatureCollection"
    THEN [status |-> 400, local |-> loc]
    ELSE IF loc[L] # Absent
    THEN [status |-> 200, local |-> [loc EXCEPT ![L].features = F]]
    ELSE [status |-> 200, local |-> [loc EXCEPT ![L] = Doc(F)]]

\* POST /data/<layer>/update
update_layer(L, valid, F, remote, upd, disk) ==
    IF ~valid
    THEN /\ resp' = [NoResp EXCEPT !.op = "update", !.layer = L, !.status = 400,
                                   !.valid = FALSE]
         /\ last' = [last EXCEPT ![L] = Other]
         /\ UNCHANGED <<bucket, local, uploadDir, live>>
         /\ UNCHANGED <<raceVars, authVars, apiVars>>
    ELSE LET up == upload_layer_to_bucket(bucket, L, Doc(F), remote, upd)
             lw == update_layer_local(local, L, F, disk)
             status == IF up.success THEN 200 ELSE lw.status
             storage == IF up.success THEN "supabase"
                        ELSE IF lw.status = 200 THEN "local" ELSE "none"
         IN  /\ bucket' = up.bucket
             /\ local' = IF up.success THEN local ELSE lw.local
             /\ resp' = [NoResp EXCEPT !.op = "update", !.layer = L,
                            !.status = status, !.storage = storage,
                            !.features = IF status = 200 THEN F ELSE <<>>,
                            !.remote = IF up.success THEN "ok" ELSE "error",
                            !.disk = IF up.success THEN "ok" ELSE disk]
             /\ last' = [last EXCEPT ![L] = IF status = 200 THEN Written(F)
                                             ELSE Other]
             /\ live' = [live EXCEPT ![L] = live[L] \/ status = 200]
             /\ UNCHANGED uploadDir
             /\ UNCHANGED <<raceVars, authVars, apiVars>>

get_geojson_no_fallback(bkt, loc, L, remote) ==
    LET dl == download_layer_from_bucket(bkt, L, remote)
    IN  [NoResp EXCEPT !.op = "get", !.layer = L,
            !.status = IF dl.success THEN 200 ELSE 404,
            !.storage = IF dl.success THEN "supabase" ELSE "none",
            !.features = dl.data.features,
            !.remote = IF dl.success THEN "ok" ELSE "error"]

\* get_geojson: the bucket's copy when the download succeeds, else the
\* local file, else 404. A local file that does not parse raises.
get_geojson(bkt, loc, L, remote) ==
    LET dl == download_layer_from_bucket(bkt, L, remote)
        src == IF dl.success THEN "supabase"
               ELSE IF loc[L] # Absent THEN "local" ELSE "none"
        body == IF dl.success THEN dl.data ELSE loc[L]
    IN  [NoResp EXCEPT !.op = "get", !.layer = L,
            !.status = IF src = "none" THEN 404
                       ELSE IF body.type = "corrupt" THEN 500 ELSE 200,
            !.storage = src,
            !.features = body.features,
            !.remote = IF dl.success THEN "ok" ELSE "error"]

\* GET /data/<layer>
GetGeojson(L, remote) ==
    /\ resp' = get_geojson(bucket, local, L, remote)
    /\ UNCHANGED <<bucket, local, uploadDir, last, live>>
    /\ UNCHANGED <<raceVars, authVars, apiVars>>

\* GET /data/layers
list_layers(remote) ==
    LET ls == list_layers_in_bucket(bucket, remote)
    IN  /\ resp' = [NoResp EXCEPT !.op = "list", !.status = 200,
                       !.storage = IF ls.success THEN "supabase" ELSE "local",
                       !.names = IF ls.success THEN ls.layers
                                 ELSE {L \in Layers : local[L] # Absent},
                       !.remote = IF ls.success THEN "ok" ELSE "error"]
        /\ UNCHANGED <<bucket, local, uploadDir, last, live>>
        /\ UNCHANGED <<raceVars, authVars, apiVars>>

\* DELETE /data/<layer>/delete
delete_layer(L, remote, disk) ==
    LET del == delete_layer_from_bucket(bucket, L, remote)
        exists == local[L] # Absent
        raised == exists /\ disk = "fail"
        local_deleted == exists /\ ~raised
        ok == del.success \/ local_deleted
    IN  /\ bucket' = del.bucket
        /\ local' = IF local_deleted THEN [local EXCEPT ![L] = Absent] ELSE local
        /\ resp' = [NoResp EXCEPT !.op = "delete", !.layer = L,
                       !.status = IF raised THEN 500
                                  ELSE IF ok THEN 200 ELSE 404,
                       !.stores = IF raised THEN {}
                                  ELSE (IF del.success THEN {"supabase"} ELSE {})
                                       \cup (IF local_deleted THEN {"local"} ELSE {}),
                       !.remote = remote, !.disk = IF raised THEN "fail" ELSE "ok"]
        /\ last' = [last EXCEPT ![L] = IF ok /\ ~raised THEN Deleted ELSE Other]
        /\ live' = [live EXCEPT ![L] = live[L] /\ ~(ok /\ ~raised)]
        /\ UNCHANGED uploadDir
        /\ UNCHANGED <<raceVars, authVars, apiVars>>

\* ------------------------------------------------------------- /convert

Extensions == {".gpkg", ".shp", ".csv", ".txt"}

\* A Python dict with at least one key is truthy.
Truthy(r) == DOMAIN r # {}

\* convert_to_geojson, line 794-795: "success" is the dict the upload
\* returned, and "if success:" asks whether that dict is non-empty.
ConvertStored(up) == Truthy(up)

\* The try block without the tests on the extension and on the companions
\* of a shapefile.
ConvertBody_unchecked(dir, base, ext, parse, F, remote, upd) ==
    LET reject(code) == [status |-> code, storage |-> "none", features |-> <<>>,
                         bucket |-> bucket, local |-> local, uploaded |-> FALSE]
    IN  IF parse = "error" THEN reject(500)
        ELSE LET up == upload_layer_to_bucket(bucket, base, Doc(F), remote, upd)
             IN  [status |-> 200, storage |-> "supabase", features |-> F,
                  bucket |-> up.bucket, local |-> local, uploaded |-> up.success]

\* POST /convert, after file.save(): the value of the try block (status,
\* storage, stores) for the saved file <<base, ext>>.
ConvertBody(dir, base, ext, parse, F, remote, upd) ==
    LET reject(code) == [status |-> code, storage |-> "none", features |-> <<>>,
                         bucket |-> bucket, local |-> local, uploaded |-> FALSE]
    IN  IF ext \notin {".gpkg", ".shp", ".csv"} THEN reject(400)
        ELSE IF ext = ".shp" /\ ~(<<base, ".shx">> \in dir /\ <<base, ".dbf">> \in dir)
        THEN reject(400)
        ELSE IF parse = "error" THEN reject(500)
        ELSE LET up == upload_layer_to_bucket(bucket, base, Doc(F), remote, upd)
             IN  IF ConvertStored(up)
                 THEN [status |-> 200, storage |-> "supabase", features |-> F,
                       bucket |-> up.bucket, local |-> local,
                       uploaded |-> up.success]
                 ELSE [status |-> 200, storage |-> "local", features |-> F,
                       bucket |-> up.bucket, uploaded |-> up.success,
                       local |-> [local EXCEPT ![base] = Doc(F)]]

\* POST /convert
convert_to_geojson(file, base, ext, parse, F, remote, upd) ==
    IF file # "present"
    THEN /\ resp' = [NoResp EXCEPT !.op = "convert", !.status = 400,
                                   !.valid = FALSE, !.file = file]
         /\ UNCHANGED <<bucket, local, uploadDir, last, live>>
         /\ UNCHANGED <<raceVars, authVars, apiVars>>
    ELSE LET saved == uploadDir \cup {<<base, ext>>}
             r == ConvertBody(saved, base, ext, parse, F, remote, upd)
         IN  /\ bucket' = r.bucket
             /\ local' = r.local
             /\ uploadDir' = saved \ {<<base, ext>>}
             /\ resp' = [NoResp EXCEPT !.op = "convert", !.layer = base,
                            !.status = r.status, !.storage = r.storage,
                            !.features = r.features,
                            !.remote = IF r.uploaded THEN "ok" ELSE "error",
                            !.valid = (r.status # 400),
                            !.file = file, !.ext = ext, !.parse = parse]
             /\ last' = [last EXCEPT ![base] = Other]
             /\ live' = [live EXCEPT ![base] = live[base] \/ r.status = 200]
             /\ UNCHANGED <<raceVars, authVars, apiVars>>

\* ------------------------------------------------- sessions and pages

\* config.py: SESSION_TIMEOUT_MINUTES, the default of
\* PERMANENT_SESSION_LIFETIME, in minutes.
SESSION_TIMEOUT_MINUTES == 30

\* Ages past the timeout are not told apart.
AgeCap == SESSION_TIMEOUT_MINUTES + 1

\* The rows of the users table.
Users ==
    {[id |-> 1, username |-> "alice", password |-> "pa", role |-> "admin"],
     [id |-> 2, username |-> "bob", password |-> "pb", role |-> ""]}

Usernames == {"", "alice", "bob"}
Passwords == {"", "pa", "pb"}

NoUser == [id |-> 0, username |-> "", role |-> ""]

\* A session: user_id 0, username "" and role "" stand for an absent key,
\* permanent for the _permanent key, flashes for the categories of the
\* messages waiting in _flashes.
EmptySession ==
    [user_id |-> 0, username |-> "", role |-> "", permanent |-> FALSE,
     flashes |-> {}]

NoCookie == [set |-> FALSE, data |-> EmptySession, age |-> 0]

Protected == {"/", "/dashboard"}

NoPage ==
    [route |-> "none", method |-> "GET", status |-> 0, location |-> "",
     hadUser |-> FALSE, was |-> "never", username |-> "", password |-> ""]

AuthInit ==
    /\ cookie = NoCookie
    /\ idle = 0
    /\ logged = "never"
    /\ page = NoPage

authenticate_user_name_only(username, password, db) ==
    LET rows == {u \in Users : u.username = username}
    IN  IF db = "ok" /\ rows # {}
        THEN LET u == CHOOSE u \in rows : TRUE
             IN  [id |-> u.id, username |-> u.username, role |-> u.role]
        ELSE NoUser

\* authenticate_user: the first row whose username and password both equal
\* the given ones, without its password; None on no row or any exception.
authenticate_user(username, password, db) ==
    LET rows == {u \in Users : u.username = username /\ u.password = password}
    IN  IF db = "ok" /\ rows # {}
        THEN LET u == CHOOSE u \in rows : TRUE
             IN  [id |-> u.id, username |-> u.username, role |-> u.role]
        ELSE NoUser

\* The session the server opens for a request: the cookie's, unless there
\* is no cookie or its signature is older than the session lifetime.
open_session(c) ==
    IF c.set /\ c.age <= SESSION_TIMEOUT_MINUTES THEN c.data ELSE EmptySession

\* refresh_session (before_request): a logged-in session is marked
\* permanent again, which also marks it modified.
refresh_session(r) ==
    IF r.sess.user_id # 0
    THEN [r EXCEPT !.sess.permanent = TRUE, !.modified = TRUE]
    ELSE r

\* The cookie after the response: an emptied session deletes it; a modified
\* session, or a permanent one (SESSION_REFRESH_EACH_REQUEST), is signed
\* anew; otherwise the browser keeps what it has.
save_session(c, r) ==
    IF r.sess = EmptySession
    THEN IF r.modified THEN NoCookie ELSE c
    ELSE IF r.modified \/ r.sess.permanent
    THEN [set |-> TRUE, data |-> r.sess, age |-> 0]
    ELSE c

\* flash(message, category)
Flash(r, category) ==
    [r EXCEPT !.sess.flashes = @ \cup {category}, !.modified = TRUE]

\* render_template: a template that shows the flashed messages takes them
\* out of the session.
Render(r, shown) ==
    IF shown /\ r.sess.flashes # {}
    THEN [r EXCEPT !.sess.flashes = {}, !.modified = TRUE, !.status = 200]
    ELSE [r EXCEPT !.status = 200]

Redirect(r, to) == [r EXCEPT !.status = 302, !.location = to]

\* login_required: without user_id in the session, redirect to the login
\* page instead of calling the view.
login_required(r, shown) ==
    IF r.sess.user_id = 0 THEN Redirect(r, "/login") ELSE Render(r, shown)

\* index and dashboard, both behind login_required.
index(r, shown) == login_required(r, shown)
dashboard(r, shown) == login_required(r, shown)

\* login
login(r, method, username, password, db, shown) ==
    IF method = "POST"
    THEN IF username = "" \/ password = ""
         THEN Render(Flash(r, "error"), shown)
         ELSE LET user == authenticate_user(username, password, db)
              IN  IF user # NoUser
                  THEN Redirect(
                         Flash([r EXCEPT !.sess.permanent = TRUE,
                                         !.sess.user_id = user.id,
                                         !.sess.username = user.username,
                                         !.sess.role = IF user.role = "" THEN "user"
                                                       ELSE user.role,
                                         !.modified = TRUE],
                               "success"),
                         "/")
                  ELSE Render(Flash(r, "error"), shown)
    ELSE IF r.sess.user_id # 0
    THEN Redirect(r, "/")
    ELSE Render(r, shown)

logout_keeps_session(r) ==
    Redirect(Flash(r, "success"), "/login")

\* logout
logout(r) ==
    Redirect(Flash([r EXCEPT !.sess = EmptySession, !.modified = TRUE],
                   "success"),
             "/login")

\* health_check: a route that does not touch the session.
health_check(r) == [r EXCEPT !.status = 200]

\* What the view of a route makes of the request.
View(r, route, method, username, password, db, shown) ==
    IF route = "/login" THEN login(r, method, username, password, db, shown)
    ELSE IF route = "/logout" THEN logout(r)
    ELSE IF route = "/" THEN index(r, shown)
    ELSE IF route = "/dashboard" THEN dashboard(r, shown)
    ELSE health_check(r)

\* One request of the browser: open the session, run before_request and the
\* view, save the session.
Request(route, method, username, password, db, shown) ==
    LET opened == [sess |-> open_session(cookie), modified |-> FALSE,
                   status |-> 0, location |-> ""]
        r == View(refresh_session(opened), route, method, username, password,
                  db, shown)
        loggedIn == route = "/login" /\ method = "POST" /\ r.status = 302
    IN  /\ cookie' = save_session(cookie, r)
        /\ idle' = 0
        /\ logged' = IF loggedIn THEN "in"
                    ELSE IF route = "/logout" THEN "out"
                    ELSE logged
        /\ page' = [route |-> route, method |-> method, status |-> r.status,
                    location |-> r.location,
                    hadUser |-> (opened.sess.user_id # 0),
                    was |-> logged,
                    username |-> username, password |-> password]
        /\ UNCHANGED <<layerVars, raceVars, apiVars>>

\* A minute passes.
Tick ==
    /\ idle < AgeCap
    /\ idle' = idle + 1
    /\ cookie' = IF cookie.set /\ cookie.age < AgeCap
                 THEN [cookie EXCEPT !.age = @ + 1] ELSE cookie
    /\ logged' = IF logged = "in" /\ idle + 1 > SESSION_TIMEOUT_MINUTES
                THEN "expired" ELSE logged
    /\ UNCHANGED page
    /\ UNCHANGED <<layerVars, raceVars, apiVars>>

AuthNext ==
    \/ \E username \in Usernames, password \in Passwords, db \in {"ok", "error"},
          shown \in BOOLEAN :
          Request("/login", "POST", username, password, db, shown)
    \/ \E shown \in BOOLEAN : Request("/login", "GET", "", "", "ok", shown)
    \/ Request("/logout", "GET", "", "", "ok", FALSE)
    \/ \E route \in Protected, shown \in BOOLEAN :
          Request(route, "GET", "", "", "ok", shown)
    \/ Request("/health", "GET", "", "", "ok", FALSE)
    \/ Tick

\* ------------------------------------------------------ the incident store

\* Most rows the hosted table is given in a run.
MaxRows == 2

\* A text is a sequence of pieces: a run of blanks " ", a comma ",", or a
\* run of other characters. "" is the empty sequence.
Blank == " "

RECURSIVE lstrip(_)
lstrip(s) == IF s # <<>> /\ Head(s) = Blank THEN lstrip(Tail(s)) ELSE s

RECURSIVE rstrip(_)
rstrip(s) ==
    IF s # <<>> /\ s[Len(s)] = Blank THEN rstrip(SubSeq(s, 1, Len(s) - 1)) ELSE s

\* str.strip()
strip(s) == rstrip(lstrip(s))

LowerPiece(p) ==
    CASE p = "Own" -> "own"
      [] p = "NGO" -> "ngo"
      [] OTHER -> p

\* str.lower()
lower(s) == [i \in DOMAIN s |-> LowerPiece(s[i])]

\* A member of the request's JSON object: not there, null, a string or a
\* number.
JAbsent == [t |-> "absent", s |-> <<>>, n |-> 0]
JNull == [t |-> "null", s |-> <<>>, n |-> 0]
JStr(s) == [t |-> "str", s |-> s, n |-> 0]
JNum(n) == [t |-> "num", s |-> <<>>, n |-> n]

\* The pieces float() reads as a number, with their values.
Numerals == {"7"}
NumeralValue(p) == 7

\* k not in data or data[k] in (None, "")
MissingField(v) == v.t \in {"absent", "null"} \/ (v.t = "str" /\ v.s = <<>>)

\* float(data[k]): blanks around a numeral are ignored; anything else that
\* is not a number raises.
float(v) ==
    IF v.t = "num" THEN [ok |-> TRUE, n |-> v.n]
    ELSE IF v.t = "str" /\ Len(strip(v.s)) = 1 /\ strip(v.s)[1] \in Numerals
    THEN [ok |-> TRUE, n |-> NumeralValue(strip(v.s)[1])]
    ELSE [ok |-> FALSE, n |-> 0]

\* str(data.get(k, default)): the default for a member that is not there,
\* "None" for null.
str(v, default) ==
    CASE v.t = "absent" -> default
      [] v.t = "null" -> <<"None">>
      [] v.t = "str" -> v.s
      [] OTHER -> <<"7">>

\* x or y on texts
OrElse(s, default) == IF s = <<>> THEN default ELSE s

\* The days a row's created_at falls on.
Days == {1, 2, 3}

\* The row api_sitreps sends to the table (the members the requests of the
\* model differ in).
sitrep_data(data) ==
    [source |-> strip(str(data.source, <<>>)),
     source_category |-> lower(strip(str(data.source_category, <<>>))),
     title |-> OrElse(strip(str(data.title, <<>>)), <<"Untitled">>),
     lat |-> float(data.lat).n,
     lon |-> float(data.lon).n]

\* The row as the table keeps it: with the identifier and the created_at
\* the table gives it.
StoredRow(row, id, day) ==
    [id |-> id, created_at |-> day, source |-> row.source,
     source_category |-> row.source_category, title |-> row.title,
     lat |-> row.lat, lon |-> row.lon]

InsertOutcomes == {"ok", "nodata", "raise"}

NoResult == [status |-> "none", id |-> 0]

\* insert_sitrep on a table that gives every row the identifier 1.
insert_sitrep_same_id(table, id, row, day, store) ==
    [table |-> IF store = "ok" THEN table \cup {StoredRow(row, 1, day)} ELSE table,
     nextId |-> IF store = "ok" THEN id + 1 ELSE id,
     raised |-> store = "raise",
     result |-> CASE store = "ok" -> [status |-> "success", id |-> 1]
                  [] store = "nodata" -> [status |-> "error", id |-> 0]
                  [] OTHER -> NoResult]

\* insert_sitrep whose answer does not look at response.data.
insert_sitrep_unchecked(table, id, row, day, store) ==
    [table |-> IF store = "ok" THEN table \cup {StoredRow(row, id, day)} ELSE table,
     nextId |-> IF store = "ok" THEN id + 1 ELSE id,
     raised |-> store = "raise",
     result |-> IF store = "raise" THEN NoResult
                ELSE [status |-> "success", id |-> id]]

\* insert_sitrep: the table stores the row under its next identifier and
\* returns it in response.data; "nodata" is an answer with empty data and
\* "raise" a failed call, and neither stores a row.
insert_sitrep(table, id, row, day, store) ==
    [table |-> IF store = "ok" THEN table \cup {StoredRow(row, id, day)} ELSE table,
     nextId |-> IF store = "ok" THEN id + 1 ELSE id,
     raised |-> store = "raise",
     result |-> CASE store = "ok" -> [status |-> "success", id |-> id]
                  [] store = "nodata" -> [status |-> "error", id |-> 0]
                  [] OTHER -> NoResult]

\* str.split(","): the texts between the commas.
RECURSIVE split(_)
split(s) ==
    IF \A i \in DOMAIN s : s[i] # "," THEN <<s>>
    ELSE LET i == CHOOSE j \in DOMAIN s : s[j] = "," /\ \A k \in 1..(j - 1) : s[k] # ","
         IN  <<SubSeq(s, 1, i - 1)>> \o split(SubSeq(s, i + 1, Len(s)))

Range(s) == {s[i] : i \in DOMAIN s}

\* A query argument that is not given (or given empty, which the handlers
\* treat alike).
NoDate == 0
NoText == <<>>

NoFilters == [from_date |-> NoDate, to_date |-> NoDate, source_category |-> NoText]

\* query.order("created_at", desc=True); rows of one created_at come in
\* the table's own order, here by identifier.
RECURSIVE OrderDesc(_)
OrderDesc(S) ==
    IF S = {} THEN <<>>
    ELSE LET r == CHOOSE x \in S : \A y \in S :
                      \/ x.created_at > y.created_at
                      \/ x.created_at = y.created_at /\ x.id <= y.id
         IN  <<r>> \o OrderDesc(S \ {r})

\* get_sitreps that leaves the to_date filter out.
get_sitreps_no_upper(table, filters) ==
    OrderDesc({r \in table :
        /\ filters.from_date # NoDate => r.created_at >= filters.from_date
        /\ filters.source_category # NoText =>
              r.source_category \in Range(split(filters.source_category))})

get_sitreps(table, filters) ==
    OrderDesc({r \in table :
        /\ filters.from_date # NoDate => r.created_at >= filters.from_date
        /\ filters.to_date # NoDate => r.created_at <= filters.to_date
        /\ filters.source_category # NoText =>
              r.source_category \in Range(split(filters.source_category))})

NoBody == [source |-> JAbsent, lat |-> JAbsent, lon |-> JAbsent,
           title |-> JAbsent, source_category |-> JAbsent]

\* The titles member of a delete request: not there, null, a string, or a
\* list of strings.
NoTitles == [t |-> "absent", items |-> <<>>]

NoSitResp ==
    [op |-> "none", status |-> 0, data |-> NoBody, store |-> "ok",
     result |-> NoResult, filters |-> NoFilters, rows |-> <<>>,
     titles |-> NoTitles, count |-> 0]

\* The SQLite file cannot be opened or has no sitreps table.
LocalTitles == {<<"t1">>, <<"Untitled">>}
NoDb == [open |-> FALSE, rows |-> [t \in LocalTitles |-> 0]]

\* GET /api/sitreps
api_sitreps_get(from_date, to_date, source_category, store) ==
    LET filters == [from_date |-> from_date, to_date |-> to_date,
                    source_category |-> source_category]
    IN  /\ sresp' = IF store = "ok"
                    THEN [NoSitResp EXCEPT !.op = "get", !.status = 200,
                             !.filters = filters,
                             !.rows = get_sitreps(sitreps, filters)]
                    ELSE [NoSitResp EXCEPT !.op = "get", !.status = 500,
                             !.filters = filters, !.store = store]
        /\ UNCHANGED <<sitreps, nextId, localdb>>
        /\ UNCHANGED notSit

\* POST /api/sitreps
api_sitreps_post(data, day, store) ==
    LET bad(status) == [NoSitResp EXCEPT !.op = "post", !.status = status,
                           !.data = data]
    IN  /\ IF \E k \in {"source", "lat", "lon"} : MissingField(data[k])
           THEN sresp' = bad(400) /\ UNCHANGED <<sitreps, nextId>>
           ELSE IF ~float(data.lat).ok \/ ~float(data.lon).ok
           THEN sresp' = bad(400) /\ UNCHANGED <<sitreps, nextId>>
           ELSE LET ins == insert_sitrep(sitreps, nextId, sitrep_data(data), day, store)
                IN  /\ sitreps' = ins.table
                    /\ nextId' = ins.nextId
                    /\ sresp' = [NoSitResp EXCEPT !.op = "post",
                                    !.status = IF ins.raised THEN 500 ELSE 200,
                                    !.data = data, !.store = store,
                                    !.result = ins.result]
        /\ UNCHANGED localdb
        /\ UNCHANGED notSit

\* [str(t).strip() for t in titles if str(t).strip()]
RECURSIVE StripAll(_)
StripAll(items) ==
    IF items = <<>> THEN <<>>
    ELSE (IF strip(Head(items)) # <<>> THEN <<strip(Head(items))>> ELSE <<>>)
         \o StripAll(Tail(items))

\* [s.lower() for s in values]
lower_all(values) == [i \in DOMAIN values |-> lower(values[i])]

RECURSIVE SumOver(_, _)
SumOver(f, S) ==
    IF S = {} THEN 0
    ELSE LET x == CHOOSE y \in S : TRUE IN f[x] + SumOver(f, S \ {x})

\* POST /api/sitreps/delete: DELETE FROM sitreps WHERE title IN (...) on the
\* SQLite file at DB_PATH.
api_sitreps_delete(titles) ==
    LET answer(status, n) == [NoSitResp EXCEPT !.op = "delete", !.status = status,
                              !.titles = titles, !.count = n]
        wanted == Range(StripAll(titles.items))
    IN  /\ IF titles.t # "list" \/ titles.items = <<>>
           THEN sresp' = answer(400, 0) /\ UNCHANGED localdb
           ELSE IF StripAll(titles.items) = <<>>
           THEN sresp' = answer(400, 0) /\ UNCHANGED localdb
           ELSE IF ~localdb.open
           THEN sresp' = answer(500, 0) /\ UNCHANGED localdb
           ELSE /\ localdb' = [localdb EXCEPT !.rows =
                                 [t \in LocalTitles |->
                                    IF t \in wanted THEN 0 ELSE localdb.rows[t]]]
                /\ sresp' = answer(200, SumOver(localdb.rows, wanted \cap LocalTitles))
        /\ UNCHANGED <<sitreps, nextId>>
        /\ UNCHANGED notSit

\* ------------------------------------------------ the aggregation endpoints

\* Most rows get_sitreps returns to an aggregation request, after the rows
\* of the fixed prefix.
MaxIncidents == 2

\* A number that may be null: <<>> is None, <<n>> the number n. Latitudes,
\* longitudes and grid sizes are counted in hundredths of a degree.
None == <<>>
Some(n) == <<n>>

\* A text member that is null or "" is the string "": the handlers read
\* both with "x or default".
Or(s, default) == IF s = "" THEN default ELSE s

\* str.lower() on the words the rows carry.
Lower(s) ==
    CASE s = "CRITICAL" -> "critical"
      [] s = "Critical" -> "critical"
      [] s = "High" -> "high"
      [] s = "HIGH" -> "high"
      [] s = "Latest" -> "latest"
      [] s = "Medium" -> "medium"
      [] s = "Low" -> "low"
      [] s = "Own" -> "own"
      [] s = "Open" -> "open"
      [] OTHER -> s

\* weight from severity: a weight of 1 whatever the severity.
severity_weight_flat(severity) == 1

\* weight from severity
severity_weight(severity) ==
    LET s == Lower(Or(severity, "unknown"))
    IN  CASE s = "critical" -> 5
          [] s = "high" -> 4
          [] s = "medium" -> 3
          [] s = "low" -> 2
          [] OTHER -> 1

\* round(a / b) for b > 0: to the nearest integer, a tie to the even one.
round(a, b) ==
    LET q == a \div b
        r == a % b
    IN  IF 2 * r < b THEN q
        ELSE IF 2 * r > b THEN q + 1
        ELSE IF q % 2 = 0 THEN q ELSE q + 1

\* rows: the incidents with both coordinates, each with its weight.
RECURSIVE heat_rows(_)
heat_rows(sitreps_) ==
    IF sitreps_ = <<>> THEN <<>>
    ELSE LET r == Head(sitreps_)
         IN  (IF r.lat = None \/ r.lon = None THEN <<>>
              ELSE <<[lat |-> r.lat[1], lon |-> r.lon[1],
                      weight |-> severity_weight(r.severity)]>>)
             \o heat_rows(Tail(sitreps_))

\* grid_data after the rows: the buckets in the order their keys first
\* appear, each with its count and weight. A grid size of 0 makes every
\* row's division raise, and the row is passed over.
RECURSIVE grid_data(_, _, _)
grid_data(rows, grid_size, acc) ==
    IF rows = <<>> THEN acc
    ELSE IF grid_size = 0 THEN grid_data(Tail(rows), grid_size, acc)
    ELSE LET row == Head(rows)
             grid_lat == round(row.lat, grid_size) * grid_size
             grid_lon == round(row.lon, grid_size) * grid_size
             at == {i \in DOMAIN acc : acc[i].lat = grid_lat /\ acc[i].lon = grid_lon}
             i == CHOOSE j \in at : TRUE
             added == IF at = {}
                      THEN Append(acc, [lat |-> grid_lat, lon |-> grid_lon,
                                        count |-> 1, weight |-> row.weight])
                      ELSE [acc EXCEPT ![i].count = @ + 1,
                                       ![i].weight = @ + row.weight]
         IN  grid_data(Tail(rows), grid_size, added)

Min(a, b) == IF a <= b THEN a ELSE b

\* intensity = min(weight / 10.0, 1.0), counted in tenths.
intensity(weight) == Min(weight, 10)

\* list.sort(key, reverse=True) and sorted(..., reverse=True): descending by
\* key, entries of equal key staying in their order.
Without(s, i) == SubSeq(s, 1, i - 1) \o SubSeq(s, i + 1, Len(s))

RECURSIVE SortDescBy(_, _)
SortDescBy(s, keys) ==
    IF s = <<>> THEN <<>>
    ELSE LET best == CHOOSE i \in DOMAIN s :
                        /\ \A j \in DOMAIN s : keys[j] <= keys[i]
                        /\ \A j \in 1..(i - 1) : keys[j] < keys[i]
         IN  <<s[best]>> \o SortDescBy(Without(s, best), Without(keys, best))

SortDesc(s, key(_)) == SortDescBy(s, [i \in DOMAIN s |-> key(s[i])])

HeatKey(p) == intensity(p.weight)

\* heat_points
heat_points(sitreps_, grid_size) ==
    SortDesc(grid_data(heat_rows(sitreps_), grid_size, <<>>), HeatKey)

\* parse_date: the day of a created_at that datetime.fromisoformat reads.
\* A created_at is None or one timestamp text, [day, iso].
parse_date(created_at) ==
    IF created_at = None THEN None
    ELSE IF created_at[1].iso THEN Some(created_at[1].day)
    ELSE None

\* counts.get(k, 0) + 1 over the rows that have a key: the keys in the
\* order they first appear, each with its count.
RECURSIVE CountKeys(_, _)
CountKeys(keys, acc) ==
    IF keys = <<>> THEN acc
    ELSE LET k == Head(keys)
             at == {i \in DOMAIN acc : Some(acc[i].key) = k}
             i == CHOOSE j \in at : TRUE
             added == IF k = None THEN acc
                      ELSE IF at = {} THEN Append(acc, [key |-> k[1], count |-> 1])
                      ELSE [acc EXCEPT ![i].count = @ + 1]
         IN  CountKeys(Tail(keys), added)

CountBy(rows, key(_)) == CountKeys([i \in DOMAIN rows |-> key(rows[i])], <<>>)

\* sorted(counts_by_day.items()): ascending by day.
RECURSIVE SortByKey(_)
SortByKey(s) ==
    IF s = <<>> THEN <<>>
    ELSE LET first == CHOOSE i \in DOMAIN s : \A j \in DOMAIN s : s[i].key <= s[j].key
         IN  <<s[first]>> \o SortByKey(Without(s, first))

CountOf(e) == e.count

DayKey(r) == parse_date(r.created_at)
SeverityKey(r) == Some(Lower(Or(r.severity, "unknown")))
SourceKey(r) == Some(Lower(Or(r.source_category, "other")))
StatusKey(r) == Some(Lower(Or(r.status, "unknown")))
UnitKey(r) == Some(Or(r.unit, "Unspecified"))

\* top_units_sorted = sorted(...)[:10]
TopUnits == 10

Take(s, n) == SubSeq(s, 1, Min(n, Len(s)))

\* The groupings of api_sitreps_stats with by_severity in first-appearance
\* order, not sorted.
stats_unsorted(rows) ==
    [total |-> Len(rows),
     by_day |-> SortByKey(CountBy(rows, DayKey)),
     by_severity |-> CountBy(rows, SeverityKey),
     by_source_category |-> SortDesc(CountBy(rows, SourceKey), CountOf),
     by_status |-> SortDesc(CountBy(rows, StatusKey), CountOf),
     top_units |-> Take(SortDesc(CountBy(rows, UnitKey), CountOf), TopUnits)]

\* The groupings api_sitreps_stats computes from the rows.
stats(rows) ==
    [total |-> Len(rows),
     by_day |-> SortByKey(CountBy(rows, DayKey)),
     by_severity |-> SortDesc(CountBy(rows, SeverityKey), CountOf),
     by_source_category |-> SortDesc(CountBy(rows, SourceKey), CountOf),
     by_status |-> SortDesc(CountBy(rows, StatusKey), CountOf),
     top_units |-> Take(SortDesc(CountBy(rows, UnitKey), CountOf), TopUnits)]

NoStats == stats(<<>>)

NoAgg ==
    [op |-> "none", status |-> 0, gridSize |-> 0, heatPoints |-> <<>>,
     totalIncidents |-> 0, criticalAreas |-> <<>>, stats |-> NoStats]

\* heat_points[:10]
CriticalAreas == 10

\* GET /api/sitreps/heatmap, the table having returned the rows fetched;
\* gridSize is the argument of that name.
api_sitreps_heatmap(gridSize) ==
    LET grid_size == IF gridSize = JAbsent THEN [ok |-> TRUE, n |-> 10]
                     ELSE float(gridSize)
    IN  /\ agg' = IF ~grid_size.ok
                  THEN [NoAgg EXCEPT !.op = "heatmap", !.status = 500]
                  ELSE [NoAgg EXCEPT !.op = "heatmap", !.status = 200,
                           !.gridSize = grid_size.n,
                           !.heatPoints = heat_points(fetched, grid_size.n),
                           !.totalIncidents = Len(heat_rows(fetched)),
                           !.criticalAreas =
                               Take(heat_points(fetched, grid_size.n), CriticalAreas)]
        /\ UNCHANGED fetched
        /\ UNCHANGED notCalc

\* GET /api/sitreps/stats, the table having returned the rows fetched.
api_sitreps_stats ==
    /\ agg' = [NoAgg EXCEPT !.op = "stats", !.status = 200, !.stats = stats(fetched)]
    /\ UNCHANGED fetched
    /\ UNCHANGED notCalc

CalcIdle ==
    /\ fetched = <<>>
    /\ agg = NoAgg

\* ------------------------------------------------------------- AI insights

\* A JSON value json.loads produced from the LLM's text: an object, with
\* the members it has of the four of the schema, or a value of another type.
\* typed is FALSE when a member the schema has as a list of objects is of
\* another type (null, a string, a list of strings) or a confidence is not
\* a number: validate_and_format_insights raises on these.
NoDoc ==
    [t |-> "none", keys |-> {}, typed |-> TRUE, patterns |-> <<>>,
     anomalies |-> <<>>, trends |-> <<>>, summary |-> ""]

Max(a, b) == IF a >= b THEN a ELSE b

\* pattern["confidence"] with the default for a missing one and no bounds.
Confidence_unbounded(p) ==
    [p EXCEPT !.confidence = IF p.confidence = None THEN Some(75) ELSE p.confidence]

\* pattern["confidence"]: 75 when missing, then held within 0..100.
Confidence(p) ==
    LET c == IF p.confidence = None THEN 75 ELSE p.confidence[1]
    IN  [p EXCEPT !.confidence = Some(Min(100, Max(0, c)))]

\* anomaly["severity"]: "Medium" when missing ("") or not one of the three.
Severity(a) ==
    IF a.severity \in {"High", "Medium", "Low"} THEN a
    ELSE [a EXCEPT !.severity = "Medium"]

\* trend["direction"]: "Stable" when missing ("") or not one of the three.
Direction(t) ==
    IF t.direction \in {"Upward", "Downward", "Stable"} THEN t
    ELSE [t EXCEPT !.direction = "Stable"]

Raised == [raised |-> TRUE, value |-> <<>>]
Returned(v) == [raised |-> FALSE, value |-> v]

\* validate_and_format_insights that returns the parsed object as it is.
validate_and_format_insights_as_is(doc) ==
    IF doc.t # "object" \/ ~doc.typed THEN Raised
    ELSE Returned([k \in doc.keys |->
            CASE k = "patterns" -> doc.patterns
              [] k = "anomalies" -> doc.anomalies
              [] k = "trends" -> doc.trends
              [] OTHER -> doc.summary])

\* validate_and_format_insights: raises on a value without .get and on
\* members it cannot walk.
validate_and_format_insights(doc) ==
    IF doc.t # "object" \/ ~doc.typed THEN Raised
    ELSE Returned(
        [patterns |-> IF "patterns" \in doc.keys
                      THEN [i \in DOMAIN doc.patterns |-> Confidence(doc.patterns[i])]
                      ELSE <<>>,
         anomalies |-> IF "anomalies" \in doc.keys
                       THEN [i \in DOMAIN doc.anomalies |-> Severity(doc.anomalies[i])]
                       ELSE <<>>,
         trends |-> IF "trends" \in doc.keys
                    THEN [i \in DOMAIN doc.trends |-> Direction(doc.trends[i])]
                    ELSE <<>>,
         summary |-> IF "summary" \in doc.keys THEN [text |-> doc.summary, len |-> 1, cut |-> FALSE]
                     ELSE [text |-> "Analysis completed.", len |-> 1, cut |-> FALSE]])

\* text_response[:500] + "..." if len(text_response) > 500
SummaryLength == 500

\* What chat_completion returned: its error string, a content that is not a
\* string (null), or a text. A text is all JSON (whole), has a JSON object
\* inside (doc is that object) or has none; words are the keywords in it and
\* len its length.
NoResponse ==
    [kind |-> "none", whole |-> FALSE, doc |-> NoDoc, words |-> {}, len |-> 0,
     name |-> ""]

\* parse_text_response_to_insights
parse_text_response_to_insights(r) ==
    IF r.doc.t = "object" /\ r.doc.keys \cap {"patterns", "anomalies", "trends"} # {}
    THEN validate_and_format_insights(r.doc)
    ELSE Returned(
        [patterns |-> IF "pattern" \in r.words
                      THEN <<[title |-> "LLM Identified Pattern", confidence |-> Some(70)]>>
                      ELSE <<>>,
         anomalies |-> IF r.words \cap {"anomaly", "unusual"} # {}
                       THEN <<[title |-> "LLM Identified Anomaly", severity |-> "Medium"]>>
                       ELSE <<>>,
         trends |-> IF r.words \cap {"trend", "increasing", "decreasing"} # {}
                    THEN <<[title |-> "LLM Identified Trend",
                            direction |-> IF "increasing" \in r.words THEN "Upward"
                                          ELSE IF "decreasing" \in r.words THEN "Downward"
                                          ELSE "Stable"]>>
                    ELSE <<>>,
         summary |-> [text |-> r.name, len |-> Min(r.len, SummaryLength),
                      cut |-> r.len > SummaryLength]])

\* What analyze_with_openrouter does with the answer of a chat_completion
\* call: the error string and a content json.loads cannot take raise, a
\* text that is all JSON is validated, any other text is parsed as text.
Interpret(r) ==
    CASE r.kind = "error" -> Raised
      [] r.kind = "null" -> Raised
      [] r.whole -> validate_and_format_insights(r.doc)
      [] OTHER -> parse_text_response_to_insights(r)

\* The results generate_sitrep_insights makes itself.
NoData ==
    [patterns |-> <<>>, anomalies |-> <<>>, trends |-> <<>>,
     summary |-> [text |-> "No data available for analysis.", len |-> 1, cut |-> FALSE]]

BasicAnalysis(n) ==
    [patterns |-> <<[title |-> "Basic Analysis", confidence |-> Some(50)]>>,
     anomalies |-> <<>>, trends |-> <<>>,
     summary |-> [text |-> "Basic analysis of n incidents. LLM integration unavailable.",
                  len |-> n, cut |-> FALSE]]

NoInsights == [none |-> TRUE]

\* generate_sitrep_insights(data) up to the first chat_completion call:
\* n is len(data), api_key whether OPENROUTER_API_KEY is set (without it
\* create_llm_client raises).
generate_sitrep_insights(n, api_key) ==
    /\ ipc \in {"idle", "done"}
    /\ idata' = n
    /\ attempts' = <<>>
    /\ IF n = 0
       THEN ipc' = "done" /\ calls' = 0 /\ insights' = NoData
       ELSE IF ~api_key
       THEN ipc' = "done" /\ calls' = 0 /\ insights' = BasicAnalysis(n)
       ELSE ipc' = "first" /\ calls' = 1 /\ insights' = NoInsights
    /\ UNCHANGED notLlm

\* analyze_with_openrouter making the fallback call whatever the first
\* call answered.
first_attempt_always_retries(r) ==
    /\ ipc = "first"
    /\ attempts' = Append(attempts, r)
    /\ ipc' = "fallback" /\ calls' = calls + 1 /\ insights' = NoInsights
    /\ UNCHANGED idata
    /\ UNCHANGED notLlm

\* analyze_with_openrouter from the answer r of llm.chat_completion: the
\* insights are returned, or the except branch makes the fallback call.
first_attempt(r) ==
    /\ ipc = "first"
    /\ attempts' = Append(attempts, r)
    /\ IF ~Interpret(r).raised
       THEN ipc' = "done" /\ calls' = calls /\ insights' = Interpret(r).value
       ELSE ipc' = "fallback" /\ calls' = calls + 1 /\ insights' = NoInsights
    /\ UNCHANGED idata
    /\ UNCHANGED notLlm

\* analyze_with_openrouter from the answer r of
\* fallback_client.chat_completion: the insights are returned, or the
\* exception reaches generate_sitrep_insights, which returns the basic
\* analysis.
fallback_attempt(r) ==
    /\ ipc = "fallback"
    /\ attempts' = Append(attempts, r)
    /\ ipc' = "done"
    /\ calls' = calls
    /\ insights' = IF ~Interpret(r).raised THEN Interpret(r).value
                   ELSE BasicAnalysis(idata)
    /\ UNCHANGED idata
    /\ UNCHANGED notLlm

LlmIdle ==
    /\ ipc = "idle"
    /\ idata = 0
    /\ calls = 0
    /\ attempts = <<>>
    /\ insights = NoInsights

\* ------------------------------------------------------- the chatbot

\* The most rows the hosted table holds in the chatbot model.
MaxStored == 21

\* sitreps[:20] in process_query, relevant_data[:20] in process_query_stream,
\* sitreps[:10] in get_recent_sitreps.
PromptRows == 20
StreamRows == 20
SampleRows == 10

RecentWords == {"recent", "latest", "new", "today"}
UrgentWords == {"critical", "high", "urgent"}
OngoingWords == {"ongoing", "active"}
ResolvedWords == {"resolved", "completed", "closed"}
StatsWords == {"statistics", "stats", "summary", "overview"}

\* any(word in query_lower for word in words), on a query whose pieces are
\* whole words.
Mentions(query, words) == \E i \in DOMAIN query : Lower(query[i]) \in words

\* SitrepDatabase.get_recent_sitreps: the cutoff is computed and not used.
get_recent_sitreps(rows, hours) == Take(rows, SampleRows)

\* SitrepDatabase.get_sitreps_by_severity
get_sitreps_by_severity(rows, severity) ==
    SelectSeq(rows, LAMBDA s : Lower(s.severity) = Lower(severity))

\* The identifiers of the rows, in order: what the model keeps of a list of
\* incidents.
Ids(rows) == [i \in DOMAIN rows |-> rows[i].id]

\* _generate_llm_response_with_context and its streaming twin: the rows
\* _prepare_data_summary writes into the prompt, one line each; reading the
\* conversation history may raise before the prompt is built.
Prompted(data, history) ==
    [raised |-> history = "raise",
     rows |-> IF history = "raise" THEN <<>> ELSE data]

NoChatAnswer ==
    [raised |-> FALSE, data |-> <<>>, count |-> 0, prompt |-> <<>>,
     asked |-> FALSE]

\* process_query: every row of the table is the answer's data; the model
\* client, when there is one, is given the first PromptRows of them. An
\* exception while asking it becomes the text of llm_response.
process_query(rows, hasLlm, history) ==
    LET given == IF hasLlm THEN Prompted(Take(rows, PromptRows), history)
                 ELSE [raised |-> FALSE, rows |-> <<>>]
    IN  [raised |-> FALSE,
         data |-> Ids(rows),
         count |-> Len(rows),
         prompt |-> Ids(given.rows),
         asked |-> hasLlm /\ ~given.raised]

\* The rows process_query_stream selects for a query, before the cut.
\* get_sitreps_by_status and get_statistics call self.get_connection(),
\* which SitrepDatabase does not define: they raise.
Relevant(query, rows) ==
    CASE Mentions(query, RecentWords) ->
            [raised |-> FALSE, rows |-> get_recent_sitreps(rows, 24)]
      [] Mentions(query, UrgentWords) ->
            [raised |-> FALSE,
             rows |-> get_sitreps_by_severity(rows, "Critical")
                         \o get_sitreps_by_severity(rows, "High")]
      [] Mentions(query, OngoingWords) -> [raised |-> TRUE, rows |-> <<>>]
      [] Mentions(query, ResolvedWords) -> [raised |-> TRUE, rows |-> <<>>]
      [] Mentions(query, StatsWords) -> [raised |-> TRUE, rows |-> <<>>]
      [] OTHER -> [raised |-> FALSE, rows |-> get_recent_sitreps(rows, 720)]

\* process_query_stream: the selected rows are cut to StreamRows; the cut
\* list is both the answer's relevant_data and what the prompt is built of.
process_query_stream(query, rows, hasLlm, history) ==
    LET found == Relevant(query, rows)
        relevant_data == IF Len(found.rows) > StreamRows
                         THEN Take(found.rows, StreamRows) ELSE found.rows
        given == IF hasLlm THEN Prompted(relevant_data, history)
                 ELSE [raised |-> FALSE, rows |-> <<>>]
    IN  IF found.raised \/ given.raised THEN [NoChatAnswer EXCEPT !.raised = TRUE]
        ELSE [raised |-> FALSE,
              data |-> Ids(relevant_data),
              count |-> Len(relevant_data),
              prompt |-> Ids(given.rows),
              asked |-> hasLlm]

NoReply ==
    [op |-> "none", status |-> 0, query |-> <<>>, data |-> <<>>, count |-> 0,
     prompt |-> <<>>, asked |-> FALSE]

\* POST /api/chat: the message is not checked; an exception of get_sitreps
\* is not caught and the server answers 500.
chat(message, fetch, history) ==
    /\ LET result == process_query(stored, llm, history)
       IN  reply' = IF fetch = "raise"
                    THEN [NoReply EXCEPT !.op = "chat", !.status = 500,
                                         !.query = message]
                    ELSE [op |-> "chat", status |-> 200, query |-> message,
                          data |-> result.data, count |-> Len(result.data),
                          prompt |-> result.prompt, asked |-> result.asked]
    /\ UNCHANGED <<stored, llm>>
    /\ UNCHANGED notChat

\* POST /api/chatbot/query
api_chatbot_query(query, fetch, history) ==
    /\ LET user_query == strip(query)
           response == process_query(stored, llm, history)
       IN  reply' =
              IF user_query = <<>>
              THEN [NoReply EXCEPT !.op = "query", !.status = 400, !.query = query]
              ELSE IF fetch = "raise"
              THEN [NoReply EXCEPT !.op = "query", !.status = 500, !.query = query]
              ELSE [op |-> "query", status |-> 200, query |-> query,
                    data |-> response.data, count |-> response.count,
                    prompt |-> response.prompt, asked |-> response.asked]
    /\ UNCHANGED <<stored, llm>>
    /\ UNCHANGED notChat

\* The chatbot_query_stream event: status 200 stands for the
\* chatbot_stream_complete event, 400 and 500 for the chatbot_error event
\* (every exception, of get_sitreps or of a missing method, ends there).
handle_chatbot_query_stream(query, fetch, history) ==
    /\ LET user_query == strip(query)
           response == process_query_stream(user_query, stored, llm, history)
       IN  reply' =
              IF user_query = <<>>
              THEN [NoReply EXCEPT !.op = "stream", !.status = 400, !.query = query]
              ELSE IF response.raised \/ fetch = "raise"
              THEN [NoReply EXCEPT !.op = "stream", !.status = 500, !.query = query]
              ELSE [op |-> "stream", status |-> 200, query |-> query,
                    data |-> response.data, count |-> response.count,
                    prompt |-> response.prompt, asked |-> response.asked]
    /\ UNCHANGED <<stored, llm>>
    /\ UNCHANGED notChat

ChatIdle ==
    /\ stored = <<>>
    /\ llm = FALSE
    /\ reply = NoReply

\* ------------------------------------------- the filters of the endpoints

\* request.args of a filtered request: "" (the empty text) for an argument
\* that is not given. A date is one piece, a timestamp a date, "T" and a
\* time of day.
NoArgs ==
    [fromDate |-> <<>>, from_date |-> <<>>, toDate |-> <<>>, to_date |-> <<>>,
     rangeDays |-> <<>>, sources |-> <<>>]

\* The filters dict: "" for a key that is not set (get_sitreps reads every
\* key with "if filters.get(k)").
NoQuery == [from_date |-> <<>>, to_date |-> <<>>, source_category |-> <<>>]

\* int(range_days): the numerals it reads.
DayCounts == {"7"}

\* cutoff.replace(microsecond=0).isoformat() + 'Z' for utcnow() - days.
Cutoff(days) == <<"today less", days, "T", "now">>

\* The from_date a rangeDays argument gives: none when it is not given or
\* int() raises on it.
FromRange(range_days) ==
    IF range_days # <<>> /\ Len(strip(range_days)) = 1 /\ strip(range_days)[1] \in DayCounts
    THEN Cutoff(strip(range_days)[1])
    ELSE <<>>

\* x if 'T' in x else f"{x}T00:00:00Z", and the same for the end of the day.
StartOfDay(x) == IF "T" \in Range(x) THEN x ELSE x \o <<"T", "00:00:00Z">>
EndOfDay(x) == IF "T" \in Range(x) THEN x ELSE x \o <<"T", "23:59:59Z">>

\* ','.join(values)
RECURSIVE JoinComma(_)
JoinComma(values) ==
    IF values = <<>> THEN <<>>
    ELSE IF Len(values) = 1 THEN values[1]
    ELSE values[1] \o <<",">> \o JoinComma(Tail(values))

\* /api/sitreps.geojson, lines 299-325
geojson_filters(a) ==
    LET from_date == OrElse(a.from_date, a.fromDate)
        to_date == OrElse(a.to_date, a.toDate)
        ranged == IF a.rangeDays # <<>> /\ from_date = <<>>
                  THEN FromRange(a.rangeDays) ELSE <<>>
    IN  [from_date |-> IF from_date # <<>> THEN StartOfDay(from_date) ELSE ranged,
         to_date |-> IF to_date # <<>> THEN EndOfDay(to_date) ELSE <<>>,
         source_category |-> a.sources]

\* /api/sitreps/heatmap, lines 455-490
heatmap_filters(a) ==
    LET from_date == OrElse(a.fromDate, a.from_date)
        to_date == OrElse(a.toDate, a.to_date)
        values == lower_all(StripAll(split(a.sources)))
    IN  [from_date |-> IF from_date # <<>> THEN StartOfDay(from_date)
                       ELSE FromRange(a.rangeDays),
         to_date |-> IF to_date # <<>> THEN EndOfDay(to_date) ELSE <<>>,
         source_category |-> IF a.sources # <<>> THEN JoinComma(values) ELSE <<>>]

\* /api/sitreps/stats, lines 888-914: the date arguments are taken as
\* date-only strings.
stats_filters(a) ==
    LET from_date == OrElse(a.fromDate, a.from_date)
        to_date == OrElse(a.toDate, a.to_date)
    IN  [from_date |-> IF from_date # <<>> THEN from_date \o <<"T", "00:00:00Z">>
                       ELSE FromRange(a.rangeDays),
         to_date |-> IF to_date # <<>> THEN to_date \o <<"T", "23:59:59Z">> ELSE <<>>,
         source_category |-> a.sources]

\* /api/sitreps/ai-insights, lines 1011-1031: only the camelCase names are
\* read.
insights_filters(a) ==
    [from_date |-> IF a.fromDate # <<>> THEN StartOfDay(a.fromDate)
                   ELSE FromRange(a.rangeDays),
     to_date |-> IF a.toDate # <<>> THEN EndOfDay(a.toDate) ELSE <<>>,
     source_category |-> a.sources]

Endpoints == {"geojson", "heatmap", "stats", "insights"}

NotBuilt == [done |-> FALSE, filters |-> NoQuery]

\* A request to one of the four endpoints, up to its call of get_sitreps.
Build(e, filters) ==
    /\ built' = [built EXCEPT ![e] = [done |-> TRUE, filters |-> filters]]
    /\ UNCHANGED qargs
    /\ UNCHANGED notFilter

geojson_request == Build("geojson", geojson_filters(qargs))
heatmap_request == Build("heatmap", heatmap_filters(qargs))
stats_request == Build("stats", stats_filters(qargs))
insights_request == Build("insights", insights_filters(qargs))

FilterIdle ==
    /\ qargs = NoArgs
    /\ built = [e \in Endpoints |-> NotBuilt]

\* ------------------------------------------------------ the GeoJSON views

\* sitrep.get(k): None for a key the row does not have.
Get(row, k) == IF k \in DOMAIN row THEN row[k] ELSE None

\* A coordinate of a feature: the row's own number, or the k-th generated
\* default of a view.
Stored(n) == [from |-> "row", n |-> n]
Default(k) == [from |-> "default", n |-> k]

\* not x, for a number that may be None: None and 0 are falsy.
Falsy(x) == x = None \/ x = Some(0)

\* GET /api/sitrep_geojson: the rows are read under the keys 'latitude'
\* and 'longitude'; i counts the rows from 0.
get_sitrep_geojson ==
    /\ geo' =
          [op |-> "sitrep_geojson",
           features |->
              [n \in DOMAIN fetched |->
                  LET lat == Get(fetched[n], "latitude")
                      lon == Get(fetched[n], "longitude")
                      i == n - 1
                  IN  IF Falsy(lat) \/ Falsy(lon)
                      THEN [row |-> n, coordinates |-> <<Default(i), Default(i)>>]
                      ELSE [row |-> n,
                            coordinates |-> <<Stored(lon[1]), Stored(lat[1])>>]]]
    /\ UNCHANGED notGeo

\* GET /api/sitreps.geojson after get_sitreps(filters): the rows are read
\* under 'lon' and 'lat'; the row at place n has the identifier n.
api_sitreps_geojson ==
    /\ geo' =
          [op |-> "sitreps.geojson",
           features |->
              [n \in DOMAIN fetched |->
                  LET lon == Get(fetched[n], "lon")
                      lat == Get(fetched[n], "lat")
                  IN  IF lon = None \/ lat = None
                      THEN [row |-> n,
                            coordinates |-> <<Default(n % 100), Default(n % 100)>>]
                      ELSE [row |-> n,
                            coordinates |-> <<Stored(lon[1]), Stored(lat[1])>>]]]
    /\ UNCHANGED notGeo

NoGeo == [op |-> "none", features |-> <<>>]

GeoIdle == geo = NoGeo

\* ------------------------------------------------------------ vendor files

\* The longest subpath of a vendor request, in segments.
MaxSegments == 4

\* A name is a sequence of pieces, so that "leaflet" is a prefix of
\* "leaflet-draw" as it is for str.startswith. A path is a sequence of
\* names, and its string the names joined by "/".
Name(n) == <<n>>
Leaflet == Name("leaflet")
LeafletDraw == <<"leaflet", "-draw">>
Scope == <<"@", "ngageoint">>
Up == Name("..")

\* The application's directory, under which node_modules lies.
AppDir == <<Name("srv"), Name("app")>>

\* ALLOWED_VENDOR_PACKAGES: package key (as the parts it is made of) to
\* directory.
AllowedKeys == {<<Leaflet>>, <<Name("jszip")>>, <<Scope, Name("geopackage")>>}
ALLOWED_VENDOR_PACKAGES(key) == AppDir \o <<Name("node_modules")>> \o key

\* The files on the disk.
Files ==
    {AppDir \o <<Name("app.py")>>,
     AppDir \o <<Name("node_modules"), Leaflet, Name("dist"), Name("x.js")>>,
     AppDir \o <<Name("node_modules"), LeafletDraw, Name("x.js")>>,
     AppDir \o <<Name("node_modules"), Name("jszip"), Name("x.js")>>,
     AppDir \o <<Name("node_modules"), Scope, Name("geopackage"), Name("x.js")>>,
     AppDir \o <<Name("node_modules"), Name("express"), Name("x.js")>>}

\* The string of an absolute path: "/" before every name.
RECURSIVE PathString(_)
PathString(path) ==
    IF path = <<>> THEN <<>>
    ELSE <<"/">> \o Head(path) \o PathString(Tail(path))

\* str.startswith
startswith(s_, prefix) ==
    Len(prefix) <= Len(s_) /\ SubSeq(s_, 1, Len(prefix)) = prefix

\* os.path.normpath(os.path.join(base, names)) for an absolute base: ".."
\* drops the name before it, and nothing at the root.
RECURSIVE normpath(_, _)
normpath(done, names) ==
    IF names = <<>> THEN done
    ELSE IF Head(names) = Up
    THEN normpath(IF done = <<>> THEN <<>> ELSE SubSeq(done, 1, Len(done) - 1),
                  Tail(names))
    ELSE IF Head(names) = Name(".") THEN normpath(done, Tail(names))
    ELSE normpath(Append(done, Head(names)), Tail(names))

\* [p for p in subpath.split('/') if p]
parts_of(subpath) == SelectSeq(subpath, LAMBDA x : x # <<>>)

NoVend == [status |-> 0, subpath |-> <<>>, key |-> <<>>, served |-> <<>>]

\* serve_vendor: the answer to GET /vendor/<subpath>; served is the file
\* send_from_directory sends.
serve_vendor(subpath) ==
    LET parts == parts_of(subpath)
        scoped == parts # <<>> /\ Head(parts[1]) = "@"
        key == IF parts = <<>> THEN <<>>
               ELSE IF scoped THEN SubSeq(parts, 1, Min(2, Len(parts)))
               ELSE SubSeq(parts, 1, 1)
        filename_parts == SubSeq(parts, Len(key) + 1, Len(parts))
        base_dir == ALLOWED_VENDOR_PACKAGES(key)
        safe_path == normpath(base_dir, filename_parts)
        answer(status, file) ==
            [status |-> status, subpath |-> subpath, key |-> key, served |-> file]
    IN  IF parts = <<>> THEN answer(404, <<>>)
        ELSE IF scoped /\ Len(parts) < 2 THEN answer(404, <<>>)
        ELSE IF key \notin AllowedKeys THEN answer(404, <<>>)
        ELSE IF ~startswith(PathString(safe_path), PathString(base_dir))
        THEN answer(400, <<>>)
        ELSE IF safe_path \notin Files THEN answer(404, <<>>)
        ELSE answer(200, safe_path)

\* GET /vendor/<subpath>, for the request waiting in vend.
vendor_request ==
    /\ vend.status = 0
    /\ vend.subpath # <<>>
    /\ vend' = serve_vendor(vend.subpath)
    /\ UNCHANGED notVendor

VendorIdle == vend = NoVend

\* ------------------------------------------------- the streamed query

\* The most content chunks a stream delivers.
MaxChunks == 3

\* An emitted event: chatbot_stream_status, chatbot_stream_chunk (text is
\* its partial_response), chatbot_stream_complete (text is the
\* llm_response of its response) or chatbot_error.
Event(type, text) == [type |-> type, text |-> text]
Status == Event("status", <<>>)

NotConfigured == <<"LLM not configured.">>
ErrorMessage == <<"Error communicating with OpenRouter">>

\* handle_chatbot_query_stream up to the request of chat_completion_stream:
\* the empty query, the fetch of the data (an exception of it reaches the
\* handler), the answer without a model client, the reading of the
\* conversation history.
stream_open(query, fetch, history) ==
    /\ spc \in {"idle", "done"}
    /\ full' = <<>>
    /\ LET user_query == strip(query)
           found == Relevant(user_query, stored)
       IN  IF user_query = <<>>
           THEN spc' = "done" /\ events' = <<Event("error", <<>>)>>
           ELSE IF found.raised \/ fetch = "raise"
           THEN spc' = "done" /\ events' = <<Status, Event("error", <<>>)>>
           ELSE IF ~llm
           THEN /\ spc' = "done"
                /\ events' = <<Status, Status, Event("complete", NotConfigured)>>
           ELSE IF history = "raise"
           THEN spc' = "done" /\ events' = <<Status, Status, Event("error", <<>>)>>
           ELSE spc' = "streaming" /\ events' = <<Status, Status>>
    /\ UNCHANGED notStream

\* chat_completion_stream reads a data line with content: the content is
\* added to full_response and the whole of it emitted.
stream_chunk(content) ==
    /\ spc = "streaming"
    /\ Len(full) < MaxChunks
    /\ full' = Append(full, content)
    /\ events' = Append(events, Event("chunk", Append(full, content)))
    /\ spc' = spc
    /\ UNCHANGED notStream

\* The stream ends ([DONE] or the last line): chat_completion_stream
\* returns full_response, the exchange is saved (a failure of that is
\* printed), and the handler emits chatbot_stream_complete.
stream_end ==
    /\ spc = "streaming"
    /\ events' = Append(events, Event("complete", full))
    /\ spc' = "done"
    /\ full' = full
    /\ UNCHANGED notStream

\* The request or the reading of the stream raises: the except branch of
\* chat_completion_stream emits chatbot_error and returns the error
\* message, which process_query_stream returns as llm_response, and the
\* handler emits chatbot_stream_complete.
stream_fail ==
    /\ spc = "streaming"
    /\ events' = events \o <<Event("error", ErrorMessage),
                              Event("complete", ErrorMessage)>>
    /\ spc' = "done"
    /\ full' = full
    /\ UNCHANGED notStream

StreamIdle ==
    /\ spc = "idle"
    /\ events = <<>>
    /\ full = <<>>

\* ------------------------------------------------ the chatbot's conversation

\* The most chatbot queries of a behaviour.
MaxAsks == 8

\* get_recent_conversations(session_id, count=5)
HistoryCount == 5

\* The last n entries of a sequence.
Last(s_, n) == SubSeq(s_, Max(1, Len(s_) - n + 1), Len(s_))

\* get_recent_conversations that leaves the session filter out.
get_recent_conversations_of_all(table, session_id, count) == Last(table, count)

\* get_recent_conversations: the rows of the session, newest first, cut to
\* count, and reversed.
get_recent_conversations(table, session_id, count) ==
    Last(SelectSeq(table, LAMBDA e : e.session_id = session_id), count)

Message(role, content) == [role |-> role, content |-> content]

\* for conv in conversation_history: the user message and the assistant
\* message of each exchange.
RECURSIVE Exchanged(_)
Exchanged(past) ==
    IF past = <<>> THEN <<>>
    ELSE <<Message("user", Head(past).user_message),
           Message("assistant", Head(past).bot_response)>> \o Exchanged(Tail(past))

\* The messages _generate_llm_response_with_context sends for query k.
Messages(past, k) ==
    <<Message("system", <<"system_prompt">>)>> \o Exchanged(past)
        \o <<Message("user", <<"user_prompt", k>>)>>

NoSession == <<>>
NoConv ==
    [asked |-> 0, given |-> NoSession, session_id |-> NoSession, sent |-> <<>>,
     read |-> "ok", save |-> "ok", status |-> 0]

\* process_query for the k-th query, with a model client: the session id is
\* the one given or a fresh uuid4; the history is read (an exception of
\* that becomes the text of llm_response, and nothing is sent or saved),
\* the messages are sent, and the exchange is saved with the answer, an
\* exception of the save being printed.
chatbot_exchange(given, read, save) ==
    /\ asks < MaxAsks
    /\ asks' = asks + 1
    /\ LET k == asks + 1
           session_id == IF given = NoSession THEN <<"uuid4", k>> ELSE given
           past == get_recent_conversations(conversations, session_id, HistoryCount)
           called == read = "ok"
       IN  /\ conv' = [asked |-> k, given |-> given, session_id |-> session_id,
                       sent |-> IF called THEN Messages(past, k) ELSE <<>>,
                       read |-> read, save |-> IF called THEN save ELSE "ok",
                       status |-> 200]
           /\ conversations' = IF called /\ save = "ok"
                         THEN Append(conversations,
                                 [session_id |-> session_id,
                                  user_message |-> <<"user_query", k>>,
                                  bot_response |-> <<"llm_text", k>>])
                         ELSE conversations
    /\ UNCHANGED notConv

ConvIdle ==
    /\ conversations = <<>>
    /\ asks = 0
    /\ conv = NoConv

MoreIdle == FilterIdle /\ GeoIdle /\ VendorIdle /\ StreamIdle /\ ConvIdle

\* ------------------------------------------- the sequential layer model

LayerInit ==
    /\ bucket = [L \in Layers |-> Absent]
    /\ local = [L \in Layers |-> Absent]
    /\ uploadDir = {}
    /\ last = [L \in Layers |-> NoLast]
    /\ live = [L \in Layers |-> FALSE]
    /\ resp = NoResp

Writers == {"w1", "w2"}

NoAnswer == [status |-> 0, storage |-> "none"]

\* No update request is in flight.
RaceIdle ==
    /\ pc = [w \in Writers |-> "idle"]
    /\ pay = [w \in Writers |-> <<>>]
    /\ old = [w \in Writers |-> Absent]
    /\ ans = [w \in Writers |-> NoAnswer]

\* The inputs of a request are enumerated only where the handler reads them.
UpdOutcomes(L, remote) ==
    IF remote = "ok" /\ bucket[L] # Absent THEN ReadOutcomes ELSE {"ok"}

LayerNext ==
    \/ \E L \in Layers : update_layer(L, FALSE, <<>>, "ok", "ok", "ok")
    \/ \E L \in Layers, F \in FeatureLists, remote \in RemoteOutcomes :
          \E upd \in UpdOutcomes(L, remote) :
             \E disk \in (IF remote = "ok" /\ upd = "ok" THEN {"ok"} ELSE DiskOutcomes) :
                update_layer(L, TRUE, F, remote, upd, disk)
    \/ \E L \in Layers, remote \in ReadOutcomes : GetGeojson(L, remote)
    \/ \E remote \in ReadOutcomes : list_layers(remote)
    \/ \E L \in Layers, remote \in ReadOutcomes :
          \E disk \in (IF local[L] # Absent THEN DiskOutcomes ELSE {"ok"}) :
             delete_layer(L, remote, disk)
    \/ \E file \in {"missing", "empty"} :
          convert_to_geojson(file, "roads", ".gpkg", "ok", <<>>, "ok", "ok")
    \/ \E base \in Layers, ext \in {".shp", ".txt"} :
          convert_to_geojson("present", base, ext, "ok", <<>>, "ok", "ok")
    \/ \E base \in Layers, ext \in {".gpkg", ".csv"} :
          convert_to_geojson("present", base, ext, "error", <<>>, "ok", "ok")
    \/ \E base \in Layers, ext \in {".gpkg", ".csv"}, F \in FeatureLists,
          remote \in RemoteOutcomes :
          \E upd \in UpdOutcomes(base, remote) :
             convert_to_geojson("present", base, ext, "ok", F, remote, upd)


\* The incident API before its first request; the SQLite file is whatever
\* the maintenance scripts left.
SitIdle ==
    /\ sitreps = {}
    /\ nextId = 1
    /\ localdb = NoDb
    /\ sresp = NoSitResp

ApiIdle == SitIdle /\ CalcIdle /\ LlmIdle /\ ChatIdle /\ MoreIdle

\* The server after start-up: empty stores, no request in flight, no session.
Init == LayerInit /\ RaceIdle /\ AuthInit /\ ApiIdle

SpecLayers == Init /\ [][LayerNext]_vars


\* ------------------------------------- two concurrent updates of a layer

\* Each request runs update_layer for RaceLayer with a well-formed payload;
\* the steps are the calls to the remote store and to the file system, and
\* the threads interleave between them. The disk does not fail here.
RaceLayer == "roads"

RaceLists == SeqsUpTo(FeatureIds, MaxFeatures)

RaceDone == \A w \in Writers : pc[w] = "done"

Goto(w, label) == pc' = [pc EXCEPT ![w] = label]

Answer(w, status, storage) ==
    /\ ans' = [ans EXCEPT ![w] = [status |-> status, storage |-> storage]]
    /\ Goto(w, "done")

\* upload_layer_to_bucket, line 165: ensure_layers_bucket().
RaceEnsure(w, remote) ==
    /\ pc[w] = "ensure"
    /\ Goto(w, IF remote = "ok" THEN "upload" ELSE "exists")
    /\ UNCHANGED <<layerVars, authVars, apiVars, pay, old, ans>>

\* upload_layer_to_bucket, lines 174-187: storage.upload(); the store
\* creates the object or raises "already exists".
RaceUpload(w, remote) ==
    /\ pc[w] = "upload"
    /\ IF remote # "ok"
       THEN Goto(w, "exists") /\ UNCHANGED <<bucket, ans>>
       ELSE IF bucket[RaceLayer] # Absent
       THEN Goto(w, "update") /\ UNCHANGED <<bucket, ans>>
       ELSE /\ bucket' = [bucket EXCEPT ![RaceLayer] = Doc(pay[w])]
            /\ Answer(w, 200, "supabase")
    /\ UNCHANGED <<local, uploadDir, last, live, resp, authVars, apiVars, pay, old>>

\* update_layer_in_bucket, lines 200-218: storage.update().
RaceUpdate(w, upd) ==
    LET r == update_layer_in_bucket(bucket, RaceLayer, Doc(pay[w]), upd)
    IN  /\ pc[w] = "update"
        /\ bucket' = r.bucket
        /\ IF r.success
           THEN Answer(w, 200, "supabase")
           ELSE Goto(w, "exists") /\ UNCHANGED ans
        /\ UNCHANGED <<local, uploadDir, last, live, resp, authVars, apiVars, pay, old>>

\* update_layer, lines 697 and 704-709: os.path.exists(file_path).
RaceExists(w) ==
    /\ pc[w] = "exists"
    /\ IF local[RaceLayer] # Absent
       THEN Goto(w, "read") /\ UNCHANGED old
       ELSE Goto(w, "open") /\ old' = [old EXCEPT ![w] = Doc(pay[w])]
    /\ UNCHANGED <<layerVars, authVars, apiVars, pay, ans>>

\* update_layer, lines 698-703: read and parse the existing file, then put
\* the client's features in it.
RaceRead(w) ==
    /\ pc[w] = "read"
    /\ IF local[RaceLayer] = Absent \/ local[RaceLayer].type = "corrupt"
       THEN Answer(w, 500, "none") /\ UNCHANGED old
       ELSE IF local[RaceLayer].type # "FeatureCollection"
       THEN Answer(w, 400, "none") /\ UNCHANGED old
       ELSE /\ old' = [old EXCEPT ![w] = [local[RaceLayer] EXCEPT
                                              !.features = pay[w]]]
            /\ Goto(w, "open")
            /\ UNCHANGED ans
    /\ UNCHANGED <<layerVars, authVars, apiVars, pay>>

\* update_layer, line 713: open(file_path, 'w') truncates the file.
RaceOpen(w) ==
    /\ pc[w] = "open"
    /\ local' = [local EXCEPT ![RaceLayer] = Corrupt(0)]
    /\ Goto(w, "write")
    /\ UNCHANGED <<bucket, uploadDir, last, live, resp, authVars, apiVars, pay, old, ans>>

\* update_layer, lines 714-716: json.dump and the close of the file write
\* the text from the start of the file, over whatever the file holds by
\* then; a longer text already there keeps its end.
RaceWrite(w) ==
    /\ pc[w] = "write"
    /\ local' = [local EXCEPT ![RaceLayer] =
                    IF TextLen(local[RaceLayer]) <= TextLen(old[w])
                    THEN old[w]
                    ELSE Corrupt(TextLen(local[RaceLayer]))]
    /\ Answer(w, 200, "local")
    /\ UNCHANGED <<bucket, uploadDir, last, live, resp, authVars, apiVars, pay, old>>

\* GET /data/<layer> once both requests have answered.
RaceGet(remote) ==
    /\ RaceDone
    /\ resp.op = "none"
    /\ resp' = get_geojson(bucket, local, RaceLayer, remote)
    /\ UNCHANGED <<bucket, local, uploadDir, last, live, raceVars, authVars, apiVars>>

\* The layer may exist already, in either store, when the requests arrive.
RaceInit ==
    /\ bucket \in [Layers -> {Absent} \cup {Doc(F) : F \in RaceLists}]
    /\ local \in [Layers -> {Absent} \cup {Doc(F) : F \in RaceLists}]
    /\ \A L \in Layers \ {RaceLayer} : bucket[L] = Absent /\ local[L] = Absent
    /\ uploadDir = {}
    /\ last = [L \in Layers |-> NoLast]
    /\ live = [L \in Layers |-> FALSE]
    /\ resp = NoResp
    /\ pc = [w \in Writers |-> "ensure"]
    /\ pay \in [Writers -> RaceLists]
    /\ old = [w \in Writers |-> Absent]
    /\ ans = [w \in Writers |-> NoAnswer]

RaceNext ==
    \/ \E w \in Writers, remote \in {"ok", "nobucket"} : RaceEnsure(w, remote)
    \/ \E w \in Writers, remote \in ReadOutcomes : RaceUpload(w, remote)
    \/ \E w \in Writers, upd \in ReadOutcomes : RaceUpdate(w, upd)
    \/ \E w \in Writers : RaceExists(w)
    \/ \E w \in Writers : RaceRead(w)
    \/ \E w \in Writers : RaceOpen(w)
    \/ \E w \in Writers : RaceWrite(w)
    \/ \E remote \in ReadOutcomes : RaceGet(remote)

RaceStart == RaceInit /\ AuthInit /\ ApiIdle

SpecRace == RaceStart /\ [][RaceNext]_vars

\* The browser model: the layer stores stay as they start.
SpecAuth == Init /\ [][AuthNext]_vars

\* ------------------------------------------- the incident store model

T1 == JStr(<<Blank, "t1", Blank>>)

\* Two requests the handler accepts: one inside the operational region with
\* its numbers as strings, one outside it without a title.
ValidBodies ==
    {[source |-> JStr(<<"hq">>), lat |-> JStr(<<Blank, "7">>), lon |-> JNum(20),
      title |-> T1, source_category |-> JStr(<<"Own", Blank>>)],
     [source |-> JStr(<<Blank>>), lat |-> JNum(99), lon |-> JNum(0),
      title |-> JAbsent, source_category |-> JStr(<<"ngo">>)]}

BadValues == {JAbsent, JNull, JStr(<<>>), JStr(<<"x">>)}

\* The accepted requests, and the first of them with one required member
\* replaced.
Bodies ==
    ValidBodies \cup
    {[b EXCEPT ![k] = v] : b \in {x \in ValidBodies : x.title = T1},
                           k \in {"source", "lat", "lon"}, v \in BadValues}

CategoryArgs == {NoText, <<"own">>, <<"own", ",", "ngo">>, <<"own", ",", Blank, "ngo">>}

TitleLists ==
    {NoTitles, [t |-> "null", items |-> <<>>], [t |-> "list", items |-> <<>>],
     [t |-> "str", items |-> <<<<"t1">>>>],
     [t |-> "list", items |-> <<<<Blank>>>>],
     [t |-> "list", items |-> <<<<Blank, "t1">>>>],
     [t |-> "list", items |-> <<<<"t1">>, <<"Untitled">>, <<"t1">>>>]}

\* source is not missing and lat and lon read as numbers.
Acceptable(data) ==
    /\ \A k \in {"source", "lat", "lon"} : ~MissingField(data[k])
    /\ float(data.lat).ok
    /\ float(data.lon).ok

\* The inputs of a request are enumerated only where the handler reads them.
SitNext ==
    \/ \E from_date \in {NoDate, 2}, to_date \in {NoDate, 2},
          source_category \in CategoryArgs :
          api_sitreps_get(from_date, to_date, source_category, "ok")
    \/ api_sitreps_get(NoDate, NoDate, NoText, "raise")
    \/ \E data \in Bodies :
          \E store \in (IF ~Acceptable(data) THEN {"ok"}
                        ELSE IF nextId <= MaxRows THEN InsertOutcomes
                        ELSE InsertOutcomes \ {"ok"}) :
             \E day \in (IF Acceptable(data) /\ store = "ok" THEN Days ELSE {1}) :
                api_sitreps_post(data, day, store)
    \/ \E titles \in TitleLists : api_sitreps_delete(titles)

SitInit ==
    /\ sitreps = {}
    /\ nextId = 1
    /\ localdb \in {NoDb, [open |-> TRUE, rows |-> [t \in LocalTitles |-> 1]]}
    /\ sresp = NoSitResp

SitStart ==
    /\ LayerInit /\ RaceIdle /\ AuthInit
    /\ SitInit /\ CalcIdle /\ LlmIdle /\ ChatIdle /\ MoreIdle

SpecSitreps == SitStart /\ [][SitNext]_vars

\* -------------------------------------------- the aggregation endpoint model

Row(lat, lon, severity, source_category, status, unit, created_at) ==
    [lat |-> lat, lon |-> lon, severity |-> severity,
     source_category |-> source_category, status |-> status, unit |-> unit,
     created_at |-> created_at]

At(day) == Some([day |-> day, iso |-> TRUE])

\* Rows that differ in place and severity: three latitudes, two of them in
\* one cell of the default grid, two longitudes, and a row without latitude.
HeatRows ==
    {Row(Some(c[1]), Some(c[2]), s, "own", "open", "A", At(1)) :
        c \in {<<4, 20>>, <<12, 20>>, <<14, 20>>, <<14, 26>>},
        s \in {"CRITICAL", "High", "medium", "low", "odd", ""}}
    \cup {Row(None, Some(20), "High", "own", "open", "A", At(1))}

\* Rows that differ in what the statistics group by.
StatRows ==
    {Row(Some(4), Some(20), "High", "Own", "Open", "A", At(2)),
     Row(Some(4), Some(20), "high", "", "closed", "B", At(1)),
     Row(Some(4), Some(20), "", "ngo", "", "", None),
     Row(Some(4), Some(20), "low", "own", "open", "u11",
         Some([day |-> 1, iso |-> FALSE])),
     Row(Some(4), Some(20), "low", "ngo", "closed", "A", At(3))}

PrefixUnits == <<"u1", "u2", "u3", "u4", "u5", "u6", "u7", "u8", "u9", "u10", "u11">>

\* Eleven rows of eleven units, the first of another severity than the rest.
Prefix ==
    [i \in DOMAIN PrefixUnits |->
        Row(Some(4), Some(20), IF i = 1 THEN "Medium" ELSE "Low", "own", "open",
            PrefixUnits[i], At(2))]

\* Critical incidents in eleven cells of the default grid: two in each of
\* the first ten, three in the last.
Crowded ==
    [i \in 1..23 |->
        Row(Some(10 * Min((i + 1) \div 2, 11)), Some(20), "Critical", "own", "open",
            "A", At(1))]

Fetches ==
    SeqsUpTo(HeatRows, MaxIncidents)
    \cup SeqsUpTo(StatRows, MaxIncidents)
    \cup {Prefix \o s : s \in SeqsUpTo(StatRows, MaxIncidents)}
    \cup {Crowded \o s : s \in SeqsUpTo(HeatRows, 1)}

GridArgs == {JAbsent, JNum(20), JNum(0), JStr(<<"x">>)}

CalcNext ==
    \/ \E gridSize \in GridArgs : api_sitreps_heatmap(gridSize)
    \/ api_sitreps_stats

CalcInit ==
    /\ fetched \in Fetches
    /\ agg = NoAgg

CalcStart ==
    /\ LayerInit /\ RaceIdle /\ AuthInit
    /\ SitIdle /\ CalcInit /\ LlmIdle /\ ChatIdle /\ MoreIdle

SpecCalc == CalcStart /\ [][CalcNext]_vars

\* ------------------------------------------------------- the insights model

FullDoc ==
    [t |-> "object", keys |-> {"patterns", "anomalies", "trends", "summary"},
     typed |-> TRUE,
     patterns |-> <<[confidence |-> None], [confidence |-> Some(150)]>>,
     anomalies |-> <<[severity |-> "Critical"], [severity |-> "Low"],
                     [severity |-> ""]>>,
     trends |-> <<[direction |-> ""], [direction |-> "Up"],
                  [direction |-> "Downward"]>>,
     summary |-> "as the model wrote it"]

Docs ==
    {FullDoc,
     [FullDoc EXCEPT !.keys = {"patterns"}],
     [FullDoc EXCEPT !.keys = {}],
     [FullDoc EXCEPT !.typed = FALSE],
     [NoDoc EXCEPT !.t = "array"]}

Text(name, doc, words, len) ==
    [kind |-> "text", whole |-> FALSE, doc |-> doc, words |-> words, len |-> len,
     name |-> name]

\* The answers of a chat_completion call the model tries.
Responses ==
    {[NoResponse EXCEPT !.kind = "error"], [NoResponse EXCEPT !.kind = "null"]}
    \cup {[Text("json", doc, {}, 40) EXCEPT !.whole = TRUE] : doc \in Docs}
    \cup {Text("fenced", doc, {"pattern"}, 40) : doc \in Docs}
    \cup {Text("short", NoDoc, {}, 40),
          Text("long", NoDoc, {"pattern", "unusual", "decreasing"}, 600),
          Text("exact", NoDoc, {"trend"}, 500)}

LlmNext ==
    \/ \E n \in 0..2, api_key \in BOOLEAN : generate_sitrep_insights(n, api_key)
    \/ \E r \in Responses : first_attempt(r)
    \/ \E r \in Responses : fallback_attempt(r)

SpecInsights == Init /\ [][LlmNext]_vars

\* ------------------------------------------------------ the chatbot model

\* The table's rows as get_sitreps orders them; every third row is Low in
\* the mixed table, none is in the urgent one.
Stock(n, urgent) ==
    [i \in 1..n |->
        [id |-> i,
         severity |-> IF i % 3 = 0 /\ ~urgent THEN "Low"
                      ELSE IF i % 2 = 0 THEN "HIGH" ELSE "Critical"]]

\* A call to the hosted database answers or raises.
CallOutcomes == {"ok", "raise"}

Queries ==
    {<<>>, <<Blank>>, <<"where">>, <<Blank, "Latest">>, <<"urgent">>,
     <<"latest", Blank, "urgent">>, <<"active">>, <<"closed">>, <<"stats">>}

ChatNext ==
    \/ \E message \in {<<>>, <<"where">>}, fetch \in CallOutcomes,
          history \in CallOutcomes : chat(message, fetch, history)
    \/ \E query \in Queries, fetch \in CallOutcomes, history \in CallOutcomes :
          api_chatbot_query(query, fetch, history)
    \/ \E query \in Queries, fetch \in CallOutcomes, history \in CallOutcomes :
          handle_chatbot_query_stream(query, fetch, history)

ChatInit ==
    /\ stored \in {Stock(n, urgent) : n \in 0..MaxStored, urgent \in BOOLEAN}
    /\ llm \in BOOLEAN
    /\ reply = NoReply

ChatStart ==
    /\ LayerInit /\ RaceIdle /\ AuthInit
    /\ SitIdle /\ CalcIdle /\ LlmIdle /\ ChatInit /\ MoreIdle

SpecChat == ChatStart /\ [][ChatNext]_vars

\* ------------------------------------------------------- the filter model

DateArgs == {<<>>, <<"d2">>, <<"d2", "T", "10:00:00Z">>}

\* The arguments of a request: its dates under the camelCase or the
\* snake_case names.
QueryArgs ==
    {[fromDate |-> IF camel THEN f ELSE <<>>, from_date |-> IF camel THEN <<>> ELSE f,
      toDate |-> IF camel THEN t ELSE <<>>, to_date |-> IF camel THEN <<>> ELSE t,
      rangeDays |-> r, sources |-> c] :
        camel \in BOOLEAN, f \in DateArgs, t \in DateArgs,
        r \in {<<>>, <<"7">>, <<"x">>},
        c \in {<<>>, <<"own">>, <<"Own", ",", Blank, "ngo">>}}

FilterNext ==
    \/ geojson_request
    \/ heatmap_request
    \/ stats_request
    \/ insights_request

FilterInit ==
    /\ qargs \in QueryArgs
    /\ built = [e \in Endpoints |-> NotBuilt]

FilterStart ==
    /\ LayerInit /\ RaceIdle /\ AuthInit
    /\ SitIdle /\ CalcIdle /\ LlmIdle /\ ChatIdle /\ FilterInit /\ GeoIdle /\ VendorIdle
    /\ StreamIdle /\ ConvIdle

SpecFilters == FilterStart /\ [][FilterNext]_vars

\* ------------------------------------------------------ the GeoJSON model

\* Rows of the hosted table with a coordinate that is null, 0 or another
\* number.
GeoRows ==
    {Row(lat, lon, "High", "own", "open", "A", At(1)) :
        lat \in {None, Some(0), Some(4)}, lon \in {None, Some(0), Some(20)}}

GeoNext ==
    \/ get_sitrep_geojson
    \/ api_sitreps_geojson

GeoInit ==
    /\ fetched \in SeqsUpTo(GeoRows, MaxIncidents)
    /\ agg = NoAgg
    /\ geo = NoGeo

GeoStart ==
    /\ LayerInit /\ RaceIdle /\ AuthInit
    /\ SitIdle /\ GeoInit /\ LlmIdle /\ ChatIdle /\ FilterIdle /\ VendorIdle
    /\ StreamIdle /\ ConvIdle

SpecGeo == GeoStart /\ [][GeoNext]_vars

\* ------------------------------------------------------- the vendor model

\* The segments of the requests: package names, file and directory names,
\* "..", and the empty segment of a doubled "/".
Segments ==
    {<<>>, Up, Leaflet, LeafletDraw, Scope, Name("geopackage"), Name("express"),
     Name("dist"), Name("x.js")}

VendorNext == vendor_request

VendorInit ==
    vend \in {[NoVend EXCEPT !.subpath = p] :
                 p \in SeqsUpTo(Segments, MaxSegments) \ {<<>>}}

VendorStart ==
    /\ LayerInit /\ RaceIdle /\ AuthInit
    /\ SitIdle /\ CalcIdle /\ LlmIdle /\ ChatIdle /\ FilterIdle /\ GeoIdle
    /\ VendorInit /\ StreamIdle /\ ConvIdle

SpecVendor == VendorStart /\ [][VendorNext]_vars

\* ------------------------------------------------- the streamed query model

Contents == {"a", "b", "c"}

StreamNext ==
    \/ \E query \in Queries, fetch \in CallOutcomes, history \in CallOutcomes :
          stream_open(query, fetch, history)
    \/ \E content \in Contents : stream_chunk(content)
    \/ stream_end
    \/ stream_fail

StreamInit ==
    /\ stored = Stock(2, FALSE)
    /\ llm \in BOOLEAN
    /\ reply = NoReply

StreamStart ==
    /\ LayerInit /\ RaceIdle /\ AuthInit
    /\ SitIdle /\ CalcIdle /\ LlmIdle /\ StreamInit
    /\ FilterIdle /\ GeoIdle /\ VendorIdle /\ StreamIdle /\ ConvIdle

SpecStream == StreamStart /\ [][StreamNext]_vars

\* ------------------------------------------------- the conversation model

Sessions == {<<"s1">>}

ConvNext ==
    \E given \in Sessions \cup {NoSession}, read \in CallOutcomes,
       save \in CallOutcomes : chatbot_exchange(given, read, save)

SpecConv == Init /\ [][ConvNext]_vars

\* ------------------------------------------------ claims on the layer store

\* C1: once an update of layer L with features F has answered success, every
\* GET of L that no other update, convert or delete of L precedes answers
\* 200 with the features F.
C1_LatestWriteWins ==
    (resp.op = "get" /\ last[resp.layer].op = "written")
        => (resp.status = 200 /\ resp.features = last[resp.layer].features)

C2_Replaced ==
    (resp.op = "update" /\ resp.status = 200)
        => /\ resp.storage = "supabase" => bucket[resp.layer] = Doc(resp.features)
           /\ resp.storage = "local" => local[resp.layer] = Doc(resp.features)

C2_SameAgain ==
    (/\ resp.op = "update" /\ resp.status = 200
     /\ resp'.op = "update" /\ resp'.status = 200
     /\ resp'.layer = resp.layer
     /\ resp'.features = resp.features
     /\ resp'.storage = resp.storage)
        => (bucket' = bucket /\ local' = local)

\* C2: a successful update leaves exactly the payload's features in the store
\* it names (nothing of the previous content survives), and an update that
\* repeats the previous update of the layer on the same path (remote or
\* local file) changes neither store.
C2_ReplaceIdempotent == []C2_Replaced /\ [][C2_SameAgain]_vars

\* An update fell back to the local file while the bucket held other content.
C2_Witness ==
    /\ resp.op = "update" /\ resp.status = 200 /\ resp.storage = "local"
    /\ bucket[resp.layer] # Absent
    /\ bucket[resp.layer].features # resp.features
    /\ local[resp.layer] = Doc(resp.features)

\* C3: an update with a well-formed payload whose remote upload fails writes
\* the local file and reports storage 'local' unless the local write fails;
\* it reports 'supabase' only when the bucket holds the new features, and it
\* answers an error only when the upload and the local write both failed.
C3_FallbackToLocal ==
    (resp.op = "update" /\ resp.valid)
        => /\ (resp.remote = "error" /\ resp.disk = "ok")
                => /\ resp.status = 200 /\ resp.storage = "local"
                   /\ local[resp.layer].type = "FeatureCollection"
                   /\ local[resp.layer].features = resp.features
           /\ resp.storage = "supabase"
                => (resp.status = 200 /\ bucket[resp.layer] = Doc(resp.features))
           /\ resp.status # 200
                => (resp.status = 500 /\ resp.remote = "error" /\ resp.disk = "fail")

\* The upload failed and the layer went to the local file.
C3_Witness ==
    /\ resp.op = "update" /\ resp.valid /\ resp.remote = "error"
    /\ resp.storage = "local" /\ resp.features # <<>>
    /\ local[resp.layer] = Doc(resp.features)

\* C4: a convert that answers success has persisted the layer in the store
\* its 'storage' field names: the bucket, or the local directory when the
\* upload failed.
C4_ConvertPersists ==
    (resp.op = "convert" /\ resp.status = 200)
        => /\ resp.storage = "supabase" => bucket[resp.layer] = Doc(resp.features)
           /\ resp.storage = "local" => local[resp.layer] = Doc(resp.features)
           /\ resp.remote = "error" => resp.storage = "local"

\* C5 as stated: a GET whose remote download fails answers 404.
C5_RemoteFailureIs404 ==
    (resp.op = "get" /\ resp.remote = "error") => resp.status = 404

\* C5, amended: a GET whose remote download fails answers 404 exactly when
\* the layer has no local file; a local file that exists is served instead.
C5_RemoteFailureServesLocal ==
    (resp.op = "get" /\ resp.remote = "error")
        => /\ resp.status = 404 <=> local[resp.layer] = Absent
           /\ local[resp.layer].type = "FeatureCollection"
                => /\ resp.status = 200 /\ resp.storage = "local"
                   /\ resp.features = local[resp.layer].features

\* The download failed while the bucket held the layer, and the local file
\* was served.
C5_Witness ==
    /\ resp.op = "get" /\ resp.remote = "error" /\ resp.status = 200
    /\ local[resp.layer] # Absent /\ resp.features = local[resp.layer].features
    /\ resp.features # <<>>

\* C6: when two concurrent updates of a layer have both answered, both
\* answered success, and the GET that follows returns exactly the features
\* of one of the two requests.
C6_OneOfTheTwo ==
    (RaceDone /\ resp.op = "get")
        => /\ \A w \in Writers : ans[w].status = 200
           /\ resp.status = 200
           /\ \E w \in Writers : resp.features = pay[w]

\* C7: after a delete of L has answered success, L is in neither store, and
\* a GET of L answers 404 until L is written again.
C7_DeletedIsGone ==
    /\ (resp.op = "delete" /\ resp.status = 200)
          => (bucket[resp.layer] = Absent /\ local[resp.layer] = Absent)
    /\ (resp.op = "get" /\ last[resp.layer].op = "deleted") => resp.status = 404

\* C8: the listing names every layer that a successful update or convert
\* created and no successful delete removed since.
C8_ListedWhileLive ==
    resp.op = "list" => \A L \in Layers : live[L] => L \in resp.names


\* ------------------------------------------- claims on sessions and pages

\* The user_id the browser's cookie carries (0: none).
CookieUser(c) == IF c.set THEN c.data.user_id ELSE 0

C9_Gate ==
    page.route \in Protected
        => /\ page.status = 200 => page.hadUser
           /\ ~page.hadUser => (page.status = 302 /\ page.location = "/login")

C9_Entry ==
    (CookieUser(cookie') # 0 /\ CookieUser(cookie') # CookieUser(cookie))
        => /\ page'.route = "/login" /\ page'.method = "POST"
           /\ \E u \in Users : /\ u.username = page'.username
                               /\ u.password = page'.password
                               /\ u.id = CookieUser(cookie')

\* C9: '/' and '/dashboard' are rendered only for a request whose session
\* holds user_id and every other request to them is redirected to /login;
\* a user_id enters the session only in a POST /login whose username and
\* password are those of a row of the users table, and it is that row's id.
C9_LoginGate == []C9_Gate /\ [][C9_Entry]_vars

\* bob is logged in and got the dashboard.
C9_Witness ==
    /\ page.route = "/dashboard" /\ page.status = 200
    /\ CookieUser(cookie) = 2 /\ cookie.data.username = "bob"

Posted == sresp' # sresp /\ sresp'.op = "post"

\* C11: a POST /api/sitreps with a non-empty source and numeric lat and lon,
\* inside or outside the operational region, that the table accepts adds
\* exactly one row to the table, the row the request describes, and answers
\* status success with that row's identifier, which no other stored row has.
C11_Inserted ==
    (Posted /\ Acceptable(sresp'.data) /\ sresp'.store = "ok") =>
        \E row \in sitreps' :
            /\ row \notin sitreps
            /\ sitreps' = sitreps \cup {row}
            /\ sresp'.status = 200
            /\ sresp'.result = [status |-> "success", id |-> row.id]
            /\ \A r \in sitreps' : r.id = row.id => r = row
            /\ row.lat = float(sresp'.data.lat).n
            /\ row.lon = float(sresp'.data.lon).n
            /\ row.title = OrElse(strip(str(sresp'.data.title, <<>>)), <<"Untitled">>)

C11_InsertReturnsId == [][C11_Inserted]_vars

\* An accepted POST for a point outside the operational region was answered
\* while another row was stored.
C11_Witness ==
    /\ sresp.op = "post"
    /\ sresp.result.status = "success"
    /\ sresp.data.lat = JNum(99)
    /\ Cardinality(sitreps) = 2
    /\ \E r \in sitreps : r.id = sresp.result.id /\ r.lat = 99

\* C12: a POST /api/sitreps whose source, lat or lon is absent, null or the
\* empty string, or whose lat or lon does not read as a number, answers 400
\* and leaves the table unchanged; and a POST the table does not confirm
\* (empty data, or a failed call) is answered with an error, never with
\* status success and an identifier, and stores nothing.
C12_Rejected ==
    Posted =>
        /\ ~Acceptable(sresp'.data) =>
              sresp'.status = 400 /\ sitreps' = sitreps /\ nextId' = nextId
        /\ (Acceptable(sresp'.data) /\ sresp'.store # "ok") =>
              /\ sresp'.result.status # "success"
              /\ sresp'.status = 500 \/ sresp'.result.status = "error"
              /\ sitreps' = sitreps

C12_InvalidOrUnconfirmed == [][C12_Rejected]_vars

\* Rows are stored, and the request last answered was rejected for a lat
\* that is not a number.
C12_Witness ==
    /\ sitreps # {}
    /\ sresp.op = "post"
    /\ sresp.status = 400
    /\ sresp.data.lat = JStr(<<"x">>)

\* The request just answered is a GET /api/sitreps the table answered.
Got == sresp' # sresp /\ sresp'.op = "get" /\ sresp'.status = 200

\* Row r satisfies every filter that is given.
Matches(r, f) ==
    /\ f.from_date # NoDate => f.from_date <= r.created_at
    /\ f.to_date # NoDate => r.created_at <= f.to_date
    /\ f.source_category # NoText =>
          \E c \in Range(split(f.source_category)) : r.source_category = c

\* C13: GET /api/sitreps returns exactly the stored rows that satisfy every
\* filter given (from_date <= created_at, created_at <= to_date,
\* source_category one of the comma-separated categories), each once,
\* ordered by created_at descending; with no filter, every stored row.
C13_Returned ==
    Got =>
        LET rows == sresp'.rows
            f == sresp'.filters
        IN  /\ Range(rows) = {r \in sitreps : Matches(r, f)}
            /\ Len(rows) = Cardinality(Range(rows))
            /\ \A i \in DOMAIN rows : \A j \in DOMAIN rows :
                  i < j => rows[i].created_at >= rows[j].created_at
            /\ f = NoFilters => Range(rows) = sitreps

C13_FilteredQuery == [][C13_Returned]_vars

\* A query with both dates and a category list returned one of two stored
\* rows and left the other, which is outside the range, out.
C13_Witness ==
    /\ sresp.op = "get"
    /\ sresp.status = 200
    /\ sresp.filters.from_date = 2
    /\ sresp.filters.to_date = 2
    /\ sresp.filters.source_category = <<"own", ",", "ngo">>
    /\ Len(sresp.rows) = 1
    /\ Cardinality(sitreps) = 2
    /\ \E r \in sitreps : r.created_at = 3

\* The request just answered is a POST /api/sitreps/delete.
DeleteAnswered == sresp' # sresp /\ sresp'.op = "delete"

\* The titles of a delete request, trimmed, when they are a list with a
\* title in it.
Listed(titles) ==
    IF titles.t = "list" THEN Range(StripAll(titles.items)) ELSE {}

\* C14: POST /api/sitreps/delete with a non-empty list of titles removes
\* from the table GET /api/sitreps reads exactly the rows whose title is one
\* of the trimmed titles and reports their number as count; an empty or
\* missing list answers 400 and removes nothing.
C14_Deleted ==
    DeleteAnswered =>
        LET wanted == Listed(sresp'.titles)
            gone == {r \in sitreps : r.title \in wanted}
        IN  IF sresp'.titles.t = "list" /\ sresp'.titles.items # <<>>
            THEN /\ sitreps' = sitreps \ gone
                 /\ sresp'.status = 200 => sresp'.count = Cardinality(gone)
            ELSE sresp'.status = 400 /\ sitreps' = sitreps

C14_DeleteByTitle == [][C14_Deleted]_vars

\* --------------------------------------- claims on the aggregation endpoints

\* A heat map was computed with a grid size above 0.
HeatAnswered == agg.op = "heatmap" /\ agg.status = 200 /\ agg.gridSize > 0

\* The fetched incidents that have both coordinates.
Located == {i \in DOMAIN fetched : fetched[i].lat # None /\ fetched[i].lon # None}

\* The grid cell of incident i: the multiples of the grid size its
\* coordinates round to.
Cell(i) ==
    <<round(fetched[i].lat[1], agg.gridSize) * agg.gridSize,
      round(fetched[i].lon[1], agg.gridSize) * agg.gridSize>>

\* critical=5, high=4, medium=3, low=2, anything else 1, whatever the case
\* of the letters.
C15_Weight(severity) ==
    IF Lower(severity) = "critical" THEN 5
    ELSE IF Lower(severity) = "high" THEN 4
    ELSE IF Lower(severity) = "medium" THEN 3
    ELSE IF Lower(severity) = "low" THEN 2
    ELSE 1

\* C15: in the heat map the incidents whose coordinates round to the same
\* multiples of the grid size share one bucket, and no two buckets are of
\* one cell; a bucket's count is the number of incidents in its cell and
\* its weight the sum of their severity weights.
C15_CellsMerge ==
    HeatAnswered =>
        LET points == agg.heatPoints
            inCell(p) == {i \in Located : Cell(i) = <<p.lat, p.lon>>}
        IN  /\ \A i \in Located : \E n \in DOMAIN points :
                  Cell(i) = <<points[n].lat, points[n].lon>>
            /\ \A n \in DOMAIN points : \A m \in DOMAIN points :
                  (points[n].lat = points[m].lat /\ points[n].lon = points[m].lon)
                      => n = m
            /\ \A n \in DOMAIN points :
                  /\ points[n].count = Cardinality(inCell(points[n]))
                  /\ points[n].count > 0
                  /\ points[n].weight =
                        SumOver([i \in DOMAIN fetched |-> C15_Weight(fetched[i].severity)],
                                inCell(points[n]))

\* Two incidents of different latitude in one cell of the default grid, a
\* critical and a high one, came out as one bucket of count 2, weight 9.
C15_Witness ==
    /\ HeatAnswered
    /\ agg.gridSize = 10
    /\ Len(fetched) = 2
    /\ fetched[1].lat # fetched[2].lat
    /\ fetched[1].severity = "CRITICAL"
    /\ fetched[2].severity = "High"
    /\ Len(agg.heatPoints) = 1
    /\ agg.heatPoints[1].count = 2
    /\ agg.heatPoints[1].weight = 9

StatsAnswered == agg.op = "stats" /\ agg.status = 200

\* The sum of the counts of a grouping.
Counted(g) == SumOver([n \in DOMAIN g |-> g[n].count], DOMAIN g)

\* The rows whose key is k, and the first of them.
RowsOf(k, keys) == {i \in DOMAIN keys : keys[i] = Some(k)}
FirstOf(k, keys) == CHOOSE i \in RowsOf(k, keys) : \A j \in RowsOf(k, keys) : i <= j

\* Grouping g of the rows by keys: one entry for each key, counting its
\* rows, the counts summing to total, ordered by count descending, entries
\* of equal count in the order their keys first appear.
ByCountDesc(g, keys, total) ==
    /\ Counted(g) = total
    /\ \A n \in DOMAIN g : g[n].count = Cardinality(RowsOf(g[n].key, keys))
    /\ \A n \in DOMAIN g : \A m \in DOMAIN g :
          n < m =>
             /\ g[n].key # g[m].key
             /\ g[n].count >= g[m].count
             /\ g[n].count = g[m].count =>
                   FirstOf(g[n].key, keys) < FirstOf(g[m].key, keys)

KeysOf(key(_)) == [i \in DOMAIN fetched |-> key(fetched[i])]

\* C16: GET /api/sitreps/stats returns total equal to the number of rows;
\* by_severity, by_source_category and by_status each sum to total and are
\* ordered by count descending, ties in the order the keys first appear in
\* the rows; by_day is ordered by day ascending and sums to the number of
\* rows with a parseable created_at; top_units holds at most 10 units, and
\* no unit left out has a higher count than a unit included.
C16_Stats ==
    StatsAnswered =>
        LET st == agg.stats
            units == CountBy(fetched, UnitKey)
        IN  /\ st.total = Len(fetched)
            /\ ByCountDesc(st.by_severity, KeysOf(SeverityKey), st.total)
            /\ ByCountDesc(st.by_source_category, KeysOf(SourceKey), st.total)
            /\ ByCountDesc(st.by_status, KeysOf(StatusKey), st.total)
            /\ \A n \in DOMAIN st.by_day : \A m \in DOMAIN st.by_day :
                  n < m => st.by_day[n].key < st.by_day[m].key
            /\ Counted(st.by_day) =
                  Cardinality({i \in DOMAIN fetched : parse_date(fetched[i].created_at) # None})
            /\ Len(st.top_units) <= 10
            /\ \A n \in DOMAIN st.top_units :
                  st.top_units[n].count = Cardinality(RowsOf(st.top_units[n].key, KeysOf(UnitKey)))
            /\ \A u \in DOMAIN units :
                  (\A n \in DOMAIN st.top_units : st.top_units[n].key # units[u].key)
                      => \A n \in DOMAIN st.top_units :
                            units[u].count <= st.top_units[n].count

\* Thirteen rows of twelve units, one without created_at and one whose
\* created_at does not parse: two units were left out of top_units, and the
\* severity counted most is not the one of the first row.
C16_Witness ==
    /\ StatsAnswered
    /\ agg.stats.total = 13
    /\ Len(agg.stats.top_units) = 10
    /\ Len(CountBy(fetched, UnitKey)) = 12
    /\ agg.stats.top_units[1].key = "u11"
    /\ Counted(agg.stats.by_day) = 11
    /\ agg.stats.by_severity[1].key = "low"
    /\ fetched[1].severity = "Medium"

\* -------------------------------------------------- claims on the insights

InsightKeys == {"patterns", "anomalies", "trends", "summary"}

\* The answer the returned insights were made from, when a call was made.
Answered == attempts # <<>> /\ ipc = "done"
LastAnswer == attempts[Len(attempts)]

\* The answer carries a JSON object with a member of the schema, as the
\* whole text or inside it, that can be walked.
HasSchema(r) ==
    /\ r.kind = "text"
    /\ r.doc.t = "object"
    /\ r.doc.typed
    /\ r.whole \/ r.doc.keys \cap {"patterns", "anomalies", "trends"} # {}

\* The answer is a text with no JSON value in it.
PlainText(r) == r.kind = "text" /\ ~r.whole /\ r.doc.t = "none"

\* The insights are a normalised form of the object doc.
Normalised(v, doc) ==
    /\ Len(v.patterns) = (IF "patterns" \in doc.keys THEN Len(doc.patterns) ELSE 0)
    /\ \A i \in DOMAIN v.patterns :
          /\ v.patterns[i].confidence # None
          /\ v.patterns[i].confidence[1] \in 0..100
          /\ doc.patterns[i].confidence # None /\ doc.patterns[i].confidence[1] \in 0..100
                => v.patterns[i] = doc.patterns[i]
    /\ Len(v.anomalies) = (IF "anomalies" \in doc.keys THEN Len(doc.anomalies) ELSE 0)
    /\ \A i \in DOMAIN v.anomalies :
          /\ v.anomalies[i].severity \in {"High", "Medium", "Low"}
          /\ doc.anomalies[i].severity \in {"High", "Medium", "Low"}
                => v.anomalies[i] = doc.anomalies[i]
    /\ Len(v.trends) = (IF "trends" \in doc.keys THEN Len(doc.trends) ELSE 0)
    /\ \A i \in DOMAIN v.trends : v.trends[i].direction \in {"Upward", "Downward", "Stable"}
    /\ "summary" \in doc.keys => v.summary.text = doc.summary

\* C17: generate_sitrep_insights always returns an object with exactly the
\* keys patterns, anomalies, trends and summary, whatever the LLM answers:
\* no data gives three empty lists and the 'No data available for analysis.'
\* summary; an answer with a JSON object of the schema gives that object
\* normalised; a text with no JSON gives the placeholder insights its
\* keywords trigger, with at most the first 500 characters of the text as
\* summary; without an API key, or with both calls failing, the result is
\* the 'Basic Analysis' fallback.
C17_InsightsTotal ==
    /\ ipc = "done" =>
          /\ DOMAIN insights = InsightKeys
          /\ idata = 0 =>
                /\ insights.patterns = <<>> /\ insights.anomalies = <<>>
                /\ insights.trends = <<>>
                /\ insights.summary.text = "No data available for analysis."
          /\ (idata > 0 /\ attempts = <<>>) => insights.patterns[1].title = "Basic Analysis"
    /\ (Answered /\ HasSchema(LastAnswer)) => Normalised(insights, LastAnswer.doc)
    /\ (Answered /\ PlainText(LastAnswer)) =>
          /\ insights.summary.text = LastAnswer.name
          /\ insights.summary.len = Min(LastAnswer.len, 500)
          /\ insights.summary.cut = (LastAnswer.len > 500)
          /\ (insights.patterns # <<>>) = ("pattern" \in LastAnswer.words)
          /\ (insights.anomalies # <<>>) = (LastAnswer.words \cap {"anomaly", "unusual"} # {})
          /\ (insights.trends # <<>>) =
                (LastAnswer.words \cap {"trend", "increasing", "decreasing"} # {})
    /\ (Answered /\ Len(attempts) = 2 /\ LastAnswer.kind \in {"error", "null"}) =>
          insights.patterns[1].title = "Basic Analysis"

\* After a first call that failed, the fallback call answered JSON with a
\* pattern of confidence 150 and one without confidence, and both came out
\* within 0..100.
C17_Witness ==
    /\ Answered
    /\ Len(attempts) = 2
    /\ attempts[1].kind = "error"
    /\ LastAnswer.whole
    /\ LastAnswer.doc = FullDoc
    /\ insights.patterns = <<[confidence |-> Some(75)], [confidence |-> Some(100)]>>
    /\ insights.anomalies[1].severity = "Medium"

\* The attempt that got answer r failed: an error string, a content that
\* is not a string, or JSON that is not an object of the schema's types.
C18_Failed(r) ==
    \/ r.kind \in {"error", "null"}
    \/ r.kind = "text" /\ r.whole /\ (r.doc.t # "object" \/ ~r.doc.typed)
    \/ /\ r.kind = "text" /\ ~r.whole /\ r.doc.t = "object" /\ ~r.doc.typed
       /\ r.doc.keys \cap {"patterns", "anomalies", "trends"} # {}

C18_AtMostTwo ==
    /\ calls <= 2
    /\ Len(attempts) <= calls
    /\ calls = 2 => (attempts # <<>> /\ C18_Failed(attempts[1]))
    /\ (ipc = "done" /\ Len(attempts) = 2 /\ C18_Failed(attempts[2])) =>
          /\ calls = 2
          /\ insights.patterns[1].title = "Basic Analysis"

C18_NoCallAfter ==
    /\ (ipc = "first" /\ Len(attempts') = 1 /\ ~C18_Failed(attempts'[1])) =>
          ipc' = "done" /\ calls' = 1
    /\ ipc = "fallback" => (ipc' = "done" /\ calls' = calls)
    /\ (ipc \in {"first", "fallback"} /\ ipc' = "done") => insights' # NoInsights

\* C18: an insights request makes at most two chat-completion calls; the
\* second is made only after the first failed; a first call that succeeds
\* ends the request with no further call; and when both fail the request
\* ends with the basic analysis, with no further call.
C18_SingleFallback == []C18_AtMostTwo /\ [][C18_NoCallAfter]_vars

\* Both calls were made and both failed, the first with an error string and
\* the second with JSON that is not an object; the request ended with the
\* basic analysis.
C18_Witness ==
    /\ ipc = "done"
    /\ calls = 2
    /\ attempts[1].kind = "error"
    /\ attempts[2].whole /\ attempts[2].doc.t = "array"
    /\ insights = BasicAnalysis(idata)

\* ------------------------------------------------------ claims on /convert

\* C19: POST /convert answers 400 to a request without a file, to a .shp
\* whose .shx or .dbf companion is not in the upload directory and to an
\* extension other than .gpkg, .shp and .csv, and 500 when the file cannot
\* be parsed; whenever it answers 400 or 500 neither the bucket nor the
\* local directory is changed; and in every case the uploaded file is gone
\* from the upload directory when the response is returned.
C19_Converted ==
    resp'.op = "convert" =>
        LET companions == /\ <<resp'.layer, ".shx">> \in uploadDir
                          /\ <<resp'.layer, ".dbf">> \in uploadDir
        IN  /\ resp'.file # "present" => resp'.status = 400
            /\ (resp'.file = "present" /\ resp'.ext \notin {".gpkg", ".shp", ".csv"})
                  => resp'.status = 400
            /\ (resp'.file = "present" /\ resp'.ext = ".shp" /\ ~companions)
                  => resp'.status = 400
            /\ (resp'.file = "present" /\ resp'.ext \in {".gpkg", ".csv"}
                  /\ resp'.parse = "error") => resp'.status = 500
            /\ resp'.status \in {400, 500} => (bucket' = bucket /\ local' = local)
            /\ resp'.status \in {200, 400, 500}
            /\ \A ext \in Extensions : <<resp'.layer, ext>> \notin uploadDir'
            /\ uploadDir' \subseteq uploadDir

C20_AtMostTwenty ==
    reply.op \in {"chat", "query", "stream"} =>
        /\ Len(reply.data) <= 20
        /\ Len(reply.prompt) <= 20

\* ------------------------------------------ further claims on the layer store

\* C21: a delete of a layer that is in neither store answers 404, and the
\* storage list of a successful delete names exactly the stores that held a
\* copy of the layer before the request and hold none after it.
C21_Delete ==
    resp'.op = "delete" =>
        LET L == resp'.layer
            removed == (IF bucket[L] # Absent /\ bucket'[L] = Absent
                        THEN {"supabase"} ELSE {})
                       \cup (IF local[L] # Absent /\ local'[L] = Absent
                             THEN {"local"} ELSE {})
        IN  /\ (bucket[L] = Absent /\ local[L] = Absent) => resp'.status = 404
            /\ resp'.status = 200 => resp'.stores = removed

C21_DeleteNamesStores == [][C21_Delete]_vars

\* -------------------------------------------- further claims on the heat map

\* C22: in every 200 answer of the heat map, whatever the grid size, the
\* counts of the heat points add up to metadata.totalIncidents, and that is
\* the number of fetched incidents that have both coordinates.
C22_CountsAddUp ==
    (agg.op = "heatmap" /\ agg.status = 200) =>
        /\ SumOver([n \in DOMAIN agg.heatPoints |-> agg.heatPoints[n].count],
                   DOMAIN agg.heatPoints) = agg.totalIncidents
        /\ agg.totalIncidents = Cardinality(Located)

\* C23: in the heat map every intensity is within 0..1 (here in tenths) and
\* is min(weight / 10, 1), the heat points are in non-increasing order of
\* intensity, criticalAreas is the first ten of them, and no cell left out
\* of criticalAreas has a greater weight than a cell that is in it.
C23_CriticalAreas ==
    (agg.op = "heatmap" /\ agg.status = 200) =>
        LET points == agg.heatPoints
            top == agg.criticalAreas
        IN  /\ \A n \in DOMAIN points :
                  /\ intensity(points[n].weight) \in 0..10
                  /\ intensity(points[n].weight) = Min(points[n].weight, 10)
            /\ \A n \in DOMAIN points : \A m \in DOMAIN points :
                  n < m => intensity(points[n].weight) >= intensity(points[m].weight)
            /\ top = SubSeq(points, 1, Min(10, Len(points)))
            /\ \A n \in DOMAIN points : \A m \in DOMAIN top :
                  n > Len(top) => points[n].weight <= top[m].weight

\* ------------------------------------------- further claims on AI insights

\* The insights v read as the object they are.
AsDoc(v) ==
    [t |-> "object", keys |-> InsightKeys, typed |-> TRUE,
     patterns |-> v.patterns, anomalies |-> v.anomalies, trends |-> v.trends,
     summary |-> v.summary.text]

\* The member of the parsed object, [] when it has none.
Given(doc, k) == IF k \in doc.keys THEN doc[k] ELSE <<>>

\* C24: what validate_and_format_insights returns has the four keys; every
\* pattern's confidence is within 0..100, and is 75 where the pattern had
\* none; every anomaly's severity is High, Medium or Low, and is Medium
\* where it was missing or another word; every trend's direction is Upward,
\* Downward or Stable, and is Stable where it was missing or another word;
\* and the function returns its own output unchanged.
C24_ValidateNormalises ==
    (Answered /\ HasSchema(LastAnswer)) =>
        LET doc == LastAnswer.doc
        IN  /\ DOMAIN insights = InsightKeys
            /\ DOMAIN insights.patterns = DOMAIN Given(doc, "patterns")
            /\ DOMAIN insights.anomalies = DOMAIN Given(doc, "anomalies")
            /\ DOMAIN insights.trends = DOMAIN Given(doc, "trends")
            /\ \A i \in DOMAIN insights.patterns :
                  /\ insights.patterns[i].confidence # None
                  /\ insights.patterns[i].confidence[1] \in 0..100
                  /\ doc.patterns[i].confidence = None
                        => insights.patterns[i].confidence = Some(75)
            /\ \A i \in DOMAIN insights.anomalies :
                  /\ insights.anomalies[i].severity \in {"High", "Medium", "Low"}
                  /\ doc.anomalies[i].severity \notin {"High", "Medium", "Low"}
                        => insights.anomalies[i].severity = "Medium"
            /\ \A i \in DOMAIN insights.trends :
                  /\ insights.trends[i].direction \in {"Upward", "Downward", "Stable"}
                  /\ doc.trends[i].direction \notin {"Upward", "Downward", "Stable"}
                        => insights.trends[i].direction = "Stable"
            /\ validate_and_format_insights(AsDoc(insights)) = Returned(insights)

\* The first call answered JSON with a pattern without confidence, one of
\* confidence 150, an anomaly without severity and a trend "Up".
C24_Witness ==
    /\ Answered
    /\ Len(attempts) = 1
    /\ LastAnswer.whole
    /\ LastAnswer.doc = FullDoc
    /\ insights.patterns[1].confidence = Some(75)
    /\ insights.patterns[2].confidence = Some(100)
    /\ insights.anomalies[3].severity = "Medium"
    /\ insights.trends[2].direction = "Stable"
    /\ insights.trends[3].direction = "Downward"

\* ------------------------------------------- claims on the endpoint filters

\* What the four endpoints are said to build from the arguments a: the
\* from-date argument before rangeDays, a date widened to its day, a
\* timestamp as it is, the sources as given.
C25_Expected(a) ==
    LET from_date == IF a.fromDate # <<>> THEN a.fromDate ELSE a.from_date
        to_date == IF a.toDate # <<>> THEN a.toDate ELSE a.to_date
        widen(x, clock) == IF "T" \in Range(x) THEN x ELSE x \o <<"T", clock>>
    IN  [from_date |-> IF from_date # <<>> THEN widen(from_date, "00:00:00Z")
                       ELSE IF a.rangeDays = <<"7">> THEN Cutoff("7") ELSE <<>>,
         to_date |-> IF to_date # <<>> THEN widen(to_date, "23:59:59Z") ELSE <<>>,
         source_category |-> a.sources]

\* C25: from the same query arguments the GeoJSON view, the statistics, the
\* heat map and the AI insights build the same store filter: an explicit
\* from-date comes before rangeDays, a date-only value is widened to the
\* whole day, a full timestamp is passed through unchanged, and a rangeDays
\* that is not a number is ignored.
C25_SameFilter ==
    /\ \A e \in Endpoints : \A f \in Endpoints :
          (built[e].done /\ built[f].done) => built[e].filters = built[f].filters
    /\ \A e \in Endpoints : built[e].done => built[e].filters = C25_Expected(qargs)

\* ------------------------------------------------ claims on the GeoJSON views

\* C26: each GeoJSON view answers with one feature per fetched incident, in
\* the order of the fetch; the feature of an incident that has both
\* coordinates carries them as [lon, lat], also when one of them is 0, and
\* only the feature of an incident lacking a coordinate carries generated
\* defaults.
C26_OwnCoordinates ==
    geo.op # "none" =>
        /\ DOMAIN geo.features = DOMAIN fetched
        /\ \A n \in DOMAIN geo.features :
              /\ geo.features[n].row = n
              /\ (fetched[n].lat # None /\ fetched[n].lon # None) =>
                    geo.features[n].coordinates =
                        <<Stored(fetched[n].lon[1]), Stored(fetched[n].lat[1])>>
              /\ (fetched[n].lat = None \/ fetched[n].lon = None) =>
                    \A c \in Range(geo.features[n].coordinates) : c.from = "default"

\* --------------------------------------------------- claims on vendor files

\* The package a subpath names: its first segment, or its first two when
\* the first begins with "@".
C27_Package(subpath) ==
    LET parts == SelectSeq(subpath, LAMBDA x : x # <<>>)
    IN  IF parts = <<>> THEN <<>>
        ELSE IF Head(parts[1]) = "@" THEN SubSeq(parts, 1, Min(2, Len(parts)))
        ELSE <<parts[1]>>

\* C27: a vendor request is answered with a file only when the package its
\* subpath names is whitelisted and the file lies inside that package's
\* directory; a package that is not whitelisted gets 404.
C27_InsidePackage ==
    vend.status # 0 =>
        LET key == C27_Package(vend.subpath)
            dir == AppDir \o <<Name("node_modules")>> \o key
        IN  /\ vend.status = 200 =>
                  /\ key \in AllowedKeys
                  /\ Len(vend.served) > Len(dir)
                  /\ SubSeq(vend.served, 1, Len(dir)) = dir
            /\ key \notin AllowedKeys => vend.status = 404

\* ----------------------------------------------- claims on the streamed query

C28_Terminal(e) == e.type \in {"complete", "error"}
C28_Chunks == SelectSeq(events, LAMBDA e : e.type = "chunk")

\* C28: the events of a streamed query are status events, then chunk
\* events, each with the partial response of the one before it extended by
\* new content, then one terminal event and nothing after it: never a
\* complete and an error event both, and one of them once the query is
\* over; the complete event carries the last partial response emitted as
\* llm_response.
C28_EventOrder ==
    /\ \A i \in DOMAIN events : \A j \in DOMAIN events :
          i < j =>
             /\ ~C28_Terminal(events[i])
             /\ events[j].type = "status" => events[i].type = "status"
    /\ spc = "done" => (events # <<>> /\ C28_Terminal(events[Len(events)]))
    /\ \A n \in DOMAIN C28_Chunks :
          LET before == IF n = 1 THEN <<>> ELSE C28_Chunks[n - 1].text
          IN  /\ Len(C28_Chunks[n].text) > Len(before)
              /\ SubSeq(C28_Chunks[n].text, 1, Len(before)) = before
    /\ (spc = "done" /\ C28_Chunks # <<>> /\ events[Len(events)].type = "complete") =>
          events[Len(events)].text = C28_Chunks[Len(C28_Chunks)].text

\* ------------------------------------------- claims on the conversation

\* The saved exchanges of session S, oldest first.
C29_Of(S) == SelectSeq(conversations, LAMBDA e : e.session_id = S)

\* The exchange query k saves.
C29_Exchange(S, k) ==
    [session_id |-> S, user_message |-> <<"user_query", k>>,
     bot_response |-> <<"llm_text", k>>]

C29_Sent ==
    asks' = asks + 1 =>
        LET S == conv'.session_id
            k == conv'.asked
            mine == C29_Of(S)
            first == Max(1, Len(mine) - 4)
            n == Len(mine) - first + 1
            sent == conv'.sent
        IN  /\ conv'.status = 200
            /\ conv'.given # NoSession => S = conv'.given
            /\ conv'.given = NoSession =>
                  /\ mine = <<>>
                  /\ \A i \in DOMAIN conversations : conversations[i].session_id # S
            /\ sent # <<>> =>
                  /\ Len(sent) = 2 * n + 2
                  /\ n <= 5
                  /\ sent[1].role = "system"
                  /\ \A i \in 1..n :
                        /\ sent[2 * i] = Message("user", mine[first + i - 1].user_message)
                        /\ sent[2 * i + 1] =
                              Message("assistant", mine[first + i - 1].bot_response)
                  /\ sent[Len(sent)] = Message("user", <<"user_prompt", k>>)
            /\ (sent # <<>> /\ conv'.save = "ok") =>
                  conversations' = Append(conversations, C29_Exchange(S, k))
            /\ (sent = <<>> \/ conv'.save = "raise") => conversations' = conversations

\* C29: the messages sent for a query in session S are one system message,
\* the at most five most recent saved exchanges of S and of no other
\* session, oldest first, each as a user and an assistant message, and the
\* current question as the last message; after the call exactly one
\* exchange is appended to the history of S; a failure of the save leaves
\* the history as it was and the query still answers; a query without a
\* session id gets a session id with no history.
C29_Conversation == [][C29_Sent]_vars

\* A query in s1 was sent with the last five of the six exchanges saved
\* for s1, while an exchange of another session was saved too.
C29_Witness ==
    /\ conv.session_id = <<"s1">>
    /\ conv.asked = 8
    /\ Len(conv.sent) = 12
    /\ conv.save = "raise"
    /\ Len(conversations) = 7
    /\ Len(C29_Of(<<"s1">>)) = 6
    /\ conversations[1].session_id = <<"s1">>
    /\ conversations[2].session_id = <<"uuid4", 2>>
    /\ conv.sent[2].content = <<"user_query", 3>>

====
